---------------------------- MODULE Spec2Model ----------------------------
(***************************************************************************)
(* OpenTalon: the server-side record store with its topology resolver and  *)
(* tree builder (package server: UpsertDevice, wireParent, SaveMetrics,    *)
(* GetDeviceTree, GetLatestMetrics and the request handlers), the server   *)
(* command that runs the two listeners (serverCmd.RunE, main), the agent's *)
(* bandwidth collector (Collector.netBandwidth) and the agent's reporting  *)
(* loop (agent.Run, postJSON).                                             *)
(*                                                                         *)
(* The device table is a sequence of rows; a row's primary key is its      *)
(* index.  Soft-deleted rows (gorm.Model.DeletedAt) stay in the table and  *)
(* keep their place in the unique index on ip.                             *)
(***************************************************************************)
EXTENDS Integers, Sequences, FiniteSets, TLC

VARIABLES
    devices,      \* the devices table: Seq of Device rows, index = Device.ID
    metrics,      \* the metrics table: Seq of Metrics rows, in insertion order
    clock,        \* the server's time.Now()
    last,         \* the request handled last and its response
    tree,         \* the forest returned by the last GetDeviceTree
    prevRx,       \* Collector.prevRx
    prevTx,       \* Collector.prevTx
    prevTime,     \* Collector.prevTime
    initialized,  \* Collector.initialized
    rxBps,        \* rate returned by the last netBandwidth, receive
    txBps,        \* rate returned by the last netBandwidth, transmit
    nCollect,     \* number of netBandwidth calls made so far
    increasing,   \* every read so far succeeded, and every read after the first found
                  \* both counters strictly above the stored ones at a later time
    rejections,   \* number of requests during which the store rejected a write
    phase,        \* where the server command's goroutine stands
    listeners,    \* state of ctrlSrv and dataSrv
    active,       \* requests each listener is handling
    errCh,        \* the channel the ListenAndServe goroutines send their result to
    quit,         \* signals buffered in the quit channel
    expired,      \* the context of the shutdown has reached its deadline
    calls,        \* the Shutdown calls made so far and what they returned
    result,       \* the error RunE returned
    agentPc,      \* where agent.Run stands
    snap,         \* the snapshot of the agent's last Collect
    sent,         \* the requests the agent has posted, with their outcome
    inflight,     \* metrics reports whose device is resolved and whose row is not yet saved
    pending,      \* requests between a lookup by ip and the write that follows it
    callers,      \* the concurrent calls of netBandwidth: position and local variables
    mu,           \* Collector.mu: the call that holds it, 0 when unlocked
    os,           \* the cumulative counters of the operating system and its clock
    cfg,          \* the configuration the agent command passes to Run
    ticker,       \* ticker.C of the agent's loop: the tick it buffers, and the ticks so far
    request       \* the http request a listener of the server received last

serverVars == <<devices, metrics, clock, last, tree>>
collectorVars == <<prevRx, prevTx, prevTime, initialized, rxBps, txBps, nCollect, increasing>>
\* what a request to the server leaves alone, and what a collector call does
serviceVars == <<phase, listeners, active, errCh, quit, expired, calls, result>>
agentVars == <<agentPc, snap, sent>>
sharedVars == <<callers, mu, os>>
runVars == <<cfg, ticker>>
besidesRouter == <<collectorVars, sharedVars, rejections, serviceVars, agentVars, runVars,
                   pending, inflight>>
besidesIngest == <<collectorVars, sharedVars, rejections, serviceVars, agentVars, runVars,
                   pending, request>>
besidesUpsert == <<collectorVars, sharedVars, rejections, serviceVars, agentVars, runVars,
                   inflight, request>>
besidesServer == <<besidesIngest, inflight>>
besidesShared == <<serverVars, inflight, pending, request, rejections, serviceVars,
                   agentVars, runVars>>
besidesCollector == <<besidesShared, sharedVars>>
besidesService == <<serverVars, inflight, pending, request, collectorVars, sharedVars,
                    rejections, agentVars, runVars>>
besidesRun == <<serverVars, inflight, pending, request, sharedVars, rejections, serviceVars>>
besidesAgent == <<besidesRun, runVars>>
vars == <<devices, metrics, clock, last, tree, prevRx, prevTx, prevTime, initialized,
          rxBps, txBps, nCollect, increasing, rejections,
          phase, listeners, active, errCh, quit, expired, calls, result,
          agentPc, snap, sent, inflight, pending, callers, mu, os, cfg, ticker,
          request>>

----------------------------------------------------------------------------
(* Bounds of the model *)

\* number of timestamped requests (register, metrics, delete) in one run
MaxClock == 3
\* number of rows the metrics table may hold
MaxMetrics == 2
\* number of netBandwidth calls in one run of the collector
MaxCollects == 4
\* latest reading of the agent's clock, in ticks
MaxAgentTime == 4
\* number of requests in one run during which the store rejects a write
MaxRejections == 1
\* number of requests a listener handles at a time
MaxActive == 1
\* number of metrics reports between device lookup and SaveMetrics at a time
MaxInflight == 1
\* number of requests between a lookup by ip and the following write at a time
MaxPending == 2
\* number of times the interval of the agent's ticker elapses
MaxTicks == 3

----------------------------------------------------------------------------
(* Values *)

\* a nil *uint (Device.ParentID, RegisterPayload.ParentID)
Nil == -1

IPs == {"10.0.0.1", "10.0.0.2"}

\* gateway_ip of a report: empty when the agent could not detect it
GatewayIPs == IPs \cup {""}

\* device ids a request may name: the path parameter of a delete, the explicit
\* parent_id of a report (an id names no live device until that row exists, and
\* again once the row is deleted)
DeviceIDs == {1, 2}

NetworkModeBridged == "Bridged"
NetworkModeNAT == "NAT"

\* gorm:"default:'Bridged'" and gorm:"default:'default'": on Create a zero
\* (empty) value of the field is replaced by the default
DefaultNetworkMode == "Bridged"
DefaultGroup == "default"

agentVersion == "v0.1.0"

\* the presentation fields of the registration reports: one with every field
\* set, one with os, group and network_mode left empty
Presentations ==
    { [Hostname |-> "hostA", OS |-> "linux", Group |-> "lab",
       NetworkMode |-> NetworkModeNAT, AgentVer |-> agentVersion],
      [Hostname |-> "hostB", OS |-> "", Group |-> "",
       NetworkMode |-> "", AgentVer |-> agentVersion] }

\* a parent_id is sent by an agent started with --parent, which fills every
\* presentation field from its configuration
FullPresentations == {p \in Presentations : p.Group # "" /\ p.NetworkMode # ""}

Payload(p, ip, gw, par) ==
    [Hostname |-> p.Hostname, IP |-> ip, OS |-> p.OS, GatewayIP |-> gw,
     Group |-> p.Group, NetworkMode |-> p.NetworkMode, ParentID |-> par,
     AgentVer |-> p.AgentVer]

RegisterPayload ==
    {Payload(p, ip, gw, Nil) : p \in Presentations, ip \in IPs, gw \in GatewayIPs}
    \cup
    {Payload(p, ip, gw, par) :
        p \in FullPresentations, ip \in IPs, gw \in GatewayIPs, par \in DeviceIDs}

CPUValues == {10, 50}

MetricsPayload ==
    [Hostname : {"hostA"}, IP : IPs, GatewayIP : GatewayIPs, CPUUsage : CPUValues]

----------------------------------------------------------------------------
(* The record store (GORM over the devices and metrics tables) *)

Min(S) == CHOOSE x \in S : \A y \in S : x <= y

\* rows a query sees: gorm.Model adds "deleted_at IS NULL" to every query
Live(devs) == {i \in DOMAIN devs : ~devs[i].Deleted}

\* DB.Where("ip = ?", ip).First(&dev): the live row with that ip and the
\* smallest primary key; 0 stands for gorm.ErrRecordNotFound
First(devs, ip) ==
    LET m == {i \in Live(devs) : devs[i].IP = ip}
    IN  IF m = {} THEN 0 ELSE Min(m)

\* a devices table without unique index on ip
NoUniqueIndex(devs, ip) == FALSE

\* the unique index on devices.ip covers soft-deleted rows too
UniqueIPViolation(devs, ip) == \E i \in DOMAIN devs : devs[i].IP = ip

\* the row DB.Create inserts for the struct UpsertDevice builds: zero values of
\* fields with a default tag are replaced by the default
NewDevice(payload) ==
    [Hostname    |-> payload.Hostname,
     Remark      |-> "",
     IP          |-> payload.IP,
     OS          |-> payload.OS,
     ParentID    |-> payload.ParentID,
     GatewayIP   |-> payload.GatewayIP,
     NetworkMode |-> IF payload.NetworkMode = "" THEN DefaultNetworkMode
                     ELSE payload.NetworkMode,
     Group       |-> IF payload.Group = "" THEN DefaultGroup ELSE payload.Group,
     LastSeen    |-> 0,
     AgentVer    |-> payload.AgentVer,
     IsOnline    |-> FALSE,
     Deleted     |-> FALSE]

\* Updates with a struct in place of the map: zero (empty) values are skipped
UpdateMutableNonZero(devs, id, payload, now) ==
    LET New(old, new) == IF new = "" THEN old ELSE new
    IN  [devs EXCEPT ![id] =
            [@ EXCEPT !.Hostname = New(@, payload.Hostname),
                      !.OS = New(@, payload.OS),
                      !.GatewayIP = New(@, payload.GatewayIP),
                      !.Group = New(@, payload.Group),
                      !.NetworkMode = New(@, payload.NetworkMode),
                      !.AgentVer = New(@, payload.AgentVer),
                      !.IsOnline = TRUE,
                      !.LastSeen = now]]

\* DB.Model(&dev).Updates(map): the mutable fields of an existing row
UpdateMutable(devs, id, payload, now) ==
    [devs EXCEPT ![id] =
        [@ EXCEPT !.Hostname = payload.Hostname,
                  !.OS = payload.OS,
                  !.GatewayIP = payload.GatewayIP,
                  !.Group = payload.Group,
                  !.NetworkMode = payload.NetworkMode,
                  !.AgentVer = payload.AgentVer,
                  !.IsOnline = TRUE,
                  !.LastSeen = now]]

\* the parent reference written from every report, also from one without parent id
UpdateParentAlways(devs, id, payload) ==
    [devs EXCEPT ![id].ParentID = payload.ParentID]

\* "Only update ParentID if explicitly provided by agent"
UpdateParent(devs, id, payload) ==
    IF payload.ParentID # Nil
    THEN [devs EXCEPT ![id].ParentID = payload.ParentID]
    ELSE devs

\* wireParent without the self-reference guard
wireParentNoGuard(devs, id) ==
    LET parent == First(devs, devs[id].GatewayIP)
    IN  IF parent = 0 THEN devs
        ELSE [devs EXCEPT ![id].ParentID = parent]

\* wireParent: the device whose ip is dev.GatewayIP becomes the parent
wireParent(devs, id) ==
    LET parent == First(devs, devs[id].GatewayIP)
    IN  IF parent = 0 THEN devs
        ELSE IF parent = id THEN devs
        ELSE [devs EXCEPT ![id].ParentID = parent]

\* a store in which no device is ever wired to its gateway
AutoWireNever(devs, id) == devs

\* wireParent called after every upsert, whatever the parent and the gateway
AutoWireAlways(devs, id) == wireParent(devs, id)

\* auto-wiring that also resolves the devices waiting for the reporting one:
\* the parentless live devices whose gateway ip is its ip become its children
AutoWireChildren(devs, id) ==
    LET own == IF devs[id].ParentID = Nil /\ devs[id].GatewayIP # ""
               THEN wireParent(devs, id)
               ELSE devs
    IN  [c \in DOMAIN own |->
            IF /\ c # id /\ c \in Live(own)
               /\ own[c].ParentID = Nil /\ own[c].GatewayIP = own[id].IP
            THEN [own[c] EXCEPT !.ParentID = id]
            ELSE own[c]]

\* "Auto-wire topology by GatewayIP (only if parent not explicitly set)"
AutoWire(devs, id) ==
    IF devs[id].ParentID = Nil /\ devs[id].GatewayIP # ""
    THEN wireParent(devs, id)
    ELSE devs

\* the closing update skipped after a resolution miss
MarkOnlineIfWired(devs, id, now) ==
    IF id \in Live(devs) /\ (devs[id].GatewayIP = "" \/ devs[id].ParentID # Nil)
    THEN [devs EXCEPT ![id].IsOnline = TRUE, ![id].LastSeen = now]
    ELSE devs

\* the closing DB.Model(&dev).Updates({is_online, last_seen})
MarkOnline(devs, id, now) ==
    IF id \in Live(devs)
    THEN [devs EXCEPT ![id].IsOnline = TRUE, ![id].LastSeen = now]
    ELSE devs

\* UpsertDevice from the result of its lookup on (found, 0 for
\* gorm.ErrRecordNotFound), on the table as it is when the writes are made
UpsertDeviceAfterLookup(devs, payload, now, found) ==
    IF found = 0
    THEN IF UniqueIPViolation(devs, payload.IP)
         THEN [devices |-> devs, id |-> 0, err |-> TRUE]
         ELSE LET created == Append(devs, NewDevice(payload))
                  id == Len(created)
              IN  [devices |-> MarkOnline(AutoWire(created, id), id, now),
                   id |-> id, err |-> FALSE]
    ELSE [devices |-> MarkOnline(
                        AutoWire(
                          UpdateParent(UpdateMutable(devs, found, payload, now),
                                       found, payload),
                          found),
                        found, now),
          id |-> found, err |-> FALSE]

\* UpsertDevice: the table after the call, the id of the returned device and
\* whether the call returned an error
UpsertDevice(devs, payload, now) ==
    UpsertDeviceAfterLookup(devs, payload, now, First(devs, payload.IP))

\* the row SaveMetrics inserts
NewMetrics(deviceID, payload, now) ==
    [DeviceID |-> deviceID, CPUUsage |-> payload.CPUUsage,
     GatewayIP |-> payload.GatewayIP, LocalIP |-> payload.IP, ReportedAt |-> now]

\* SaveMetrics that inserts the row and leaves the devices alone
SaveMetricsOnly(devs, mets, deviceID, payload, now) ==
    [metrics |-> Append(mets, NewMetrics(deviceID, payload, now)),
     devices |-> devs]

\* SaveMetrics: append the row, then mark the owning device online
SaveMetrics(devs, mets, deviceID, payload, now) ==
    [metrics |-> Append(mets, NewMetrics(deviceID, payload, now)),
     devices |-> MarkOnline(devs, deviceID, now)]

\* the device's row with the smallest report time
GetOldestMetrics(mets, deviceID) ==
    LET own == {i \in DOMAIN mets : mets[i].DeviceID = deviceID}
        oldest == {i \in own : \A j \in own : mets[i].ReportedAt <= mets[j].ReportedAt}
    IN  IF own = {} THEN 0 ELSE Min(oldest)

\* GetLatestMetrics: Where("device_id = ?").Order("reported_at desc").First(&m)
\* selects the device's row with the greatest report time, and among rows with
\* that time the one with the smallest primary key; 0 stands for
\* gorm.ErrRecordNotFound
GetLatestMetrics(mets, deviceID) ==
    LET own == {i \in DOMAIN mets : mets[i].DeviceID = deviceID}
        newest == {i \in own : \A j \in own : mets[j].ReportedAt <= mets[i].ReportedAt}
    IN  IF own = {} THEN 0 ELSE Min(newest)

\* the registration handleMetricsIngest synthesizes for an unknown ip
SynthesizedRegistration(payload) ==
    [Hostname |-> payload.Hostname, IP |-> payload.IP, OS |-> "",
     GatewayIP |-> payload.GatewayIP, Group |-> "auto",
     NetworkMode |-> NetworkModeBridged, ParentID |-> Nil, AgentVer |-> "unknown"]

\* the orders in which "for _, node := range nodeMap" may visit the keys of S
Orders(S) ==
    {o \in [1..Cardinality(S) -> S] : \A i, j \in DOMAIN o : i # j => o[i] # o[j]}

\* the DeviceTree node GetDeviceTree builds for a device (Remark is not copied)
Node(devs, id) ==
    [ID |-> id, Hostname |-> devs[id].Hostname, Remark |-> "", IP |-> devs[id].IP,
     OS |-> devs[id].OS, GatewayIP |-> devs[id].GatewayIP,
     NetworkMode |-> devs[id].NetworkMode, Group |-> devs[id].Group,
     IsOnline |-> devs[id].IsOnline, LastSeen |-> devs[id].LastSeen,
     ParentID |-> devs[id].ParentID]

\* GetDeviceTree with only the devices without parent reference as roots
GetDeviceTreeOmittingOrphans(devs, o) ==
    LET loaded == Live(devs)
        IsRoot(id) == devs[id].ParentID = Nil
    IN  [built |-> TRUE,
         roots |-> SelectSeq(o, IsRoot),
         children |-> [p \in loaded |->
                         LET IsChild(c) == devs[c].ParentID = p
                         IN  SelectSeq(o, IsChild)],
         nodes |-> [id \in loaded |-> Node(devs, id)]]

\* GetDeviceTree, with the map iteration visiting the loaded ids in order o:
\* the root list, and each node's child list
GetDeviceTree(devs, o) ==
    LET loaded == Live(devs)
        IsRoot(id) == devs[id].ParentID = Nil \/ devs[id].ParentID \notin loaded
    IN  [built |-> TRUE,
         roots |-> SelectSeq(o, IsRoot),
         children |-> [p \in loaded |->
                         LET IsChild(c) == devs[c].ParentID = p
                         IN  SelectSeq(o, IsChild)],
         nodes |-> [id \in loaded |-> Node(devs, id)]]

----------------------------------------------------------------------------
(* Request handlers of the server *)

NoTree == [built |-> FALSE, roots |-> <<>>, children |-> <<>>, nodes |-> <<>>]
NoRequest == [op |-> "none", status |-> 0, id |-> 0]

\* the parent reference stored for ip when a request arrives (Nil without a device)
ParentBefore(devs, ip) ==
    IF First(devs, ip) = 0 THEN Nil ELSE devs[First(devs, ip)].ParentID

\* handleDeviceRegister
DeviceRegister(payload) ==
    /\ clock < MaxClock
    /\ clock' = clock + 1
    /\ LET r == UpsertDevice(devices, payload, clock + 1)
       IN  /\ devices' = r.devices
           /\ last' = [op |-> "register", status |-> IF r.err THEN 500 ELSE 200,
                       id |-> r.id, payload |-> payload,
                       created |-> First(devices, payload.IP) = 0 /\ ~r.err,
                       before |-> ParentBefore(devices, payload.IP)]
    /\ tree' = NoTree
    /\ UNCHANGED metrics

\* handleMetricsIngest
MetricsIngest(payload) ==
    /\ clock < MaxClock
    /\ Len(metrics) < MaxMetrics
    /\ clock' = clock + 1
    /\ LET known == First(devices, payload.IP)
           r == IF known = 0
                THEN UpsertDevice(devices, SynthesizedRegistration(payload), clock + 1)
                ELSE [devices |-> devices, id |-> known, err |-> FALSE]
       IN  IF r.err
           THEN /\ UNCHANGED <<devices, metrics>>
                /\ last' = [op |-> "metrics", status |-> 500, id |-> 0,
                            payload |-> payload, created |-> FALSE, before |-> Nil]
           ELSE LET s == SaveMetrics(r.devices, metrics, r.id, payload, clock + 1)
                IN  /\ devices' = s.devices
                    /\ metrics' = s.metrics
                    /\ last' = [op |-> "metrics", status |-> 200, id |-> r.id,
                                payload |-> payload, created |-> known = 0,
                                before |-> ParentBefore(devices, payload.IP)]
    /\ tree' = NoTree

\* handleMetricsIngest up to the call of SaveMetrics: the device is looked up
\* by ip and registered if unknown; other requests may be handled before the
\* row is saved
IngestResolve(payload) ==
    /\ Len(inflight) < MaxInflight
    /\ Len(metrics) + Len(inflight) < MaxMetrics
    /\ LET known == First(devices, payload.IP)
       IN  IF known # 0
           THEN /\ inflight' = Append(inflight, [id |-> known, payload |-> payload])
                /\ last' = [op |-> "resolved", status |-> 0, id |-> known]
                /\ UNCHANGED <<devices, clock>>
           ELSE /\ clock < MaxClock
                /\ clock' = clock + 1
                /\ LET r == UpsertDevice(devices, SynthesizedRegistration(payload),
                                         clock + 1)
                   IN  IF r.err
                       THEN /\ last' = [op |-> "resolved", status |-> 500, id |-> 0]
                            /\ UNCHANGED <<devices, inflight>>
                       ELSE /\ devices' = r.devices
                            /\ inflight' = Append(inflight,
                                                  [id |-> r.id, payload |-> payload])
                            /\ last' = [op |-> "resolved", status |-> 0, id |-> r.id]
    /\ tree' = NoTree
    /\ UNCHANGED metrics

\* handleMetricsIngest from the call of SaveMetrics on
IngestSave ==
    /\ inflight # <<>>
    /\ clock < MaxClock
    /\ clock' = clock + 1
    /\ \E k \in DOMAIN inflight :
          LET req == inflight[k]
              s == SaveMetrics(devices, metrics, req.id, req.payload, clock + 1)
          IN  /\ devices' = s.devices
              /\ metrics' = s.metrics
              /\ last' = [op |-> "saved", status |-> 200, id |-> req.id,
                          payload |-> req.payload]
              /\ inflight' = [i \in 1..(Len(inflight) - 1) |->
                                 IF i < k THEN inflight[i] ELSE inflight[i + 1]]
    /\ tree' = NoTree

\* the reports of the requests that are handled concurrently
ConcurrentRegistrations == {p \in RegisterPayload : p.ParentID = Nil /\ p.GatewayIP = ""}
ConcurrentReports == {p \in MetricsPayload : p.GatewayIP = "" /\ p.CPUUsage = 50}

\* the sequence without its k-th element
Without(seq, k) ==
    [i \in 1..(Len(seq) - 1) |-> IF i < k THEN seq[i] ELSE seq[i + 1]]

\* handleDeviceRegister up to the lookup in UpsertDevice:
\* DB.Where("ip = ?", payload.IP).First(&dev)
RegisterLookup(payload) ==
    /\ Len(pending) < MaxPending
    /\ pending' = Append(pending, [op |-> "register", stage |-> "looked",
                                   reg |-> payload, report |-> payload.IP,
                                   found |-> First(devices, payload.IP)])
    /\ UNCHANGED serverVars

\* handleMetricsIngest up to the call of UpsertDevice: the handler's own lookup
\* found no device for the ip
IngestLookup(payload) ==
    /\ Len(pending) < MaxPending
    /\ First(devices, payload.IP) = 0
    /\ pending' = Append(pending, [op |-> "metrics", stage |-> "handler",
                                   reg |-> SynthesizedRegistration(payload),
                                   report |-> payload.IP, found |-> 0])
    /\ UNCHANGED serverVars

\* the lookup in UpsertDevice, called by handleMetricsIngest
UpsertLookup(k) ==
    /\ pending[k].stage = "handler"
    /\ pending' = [pending EXCEPT ![k].stage = "looked",
                                  ![k].found = First(devices, pending[k].reg.IP)]
    /\ UNCHANGED serverVars

\* UpsertDevice from its lookup on, and the rest of the handler
UpsertWrite(k) ==
    /\ pending[k].stage = "looked"
    /\ clock < MaxClock
    /\ pending[k].op = "metrics" => Len(metrics) < MaxMetrics
    /\ clock' = clock + 1
    /\ LET req == pending[k]
           r == UpsertDeviceAfterLookup(devices, req.reg, clock + 1, req.found)
           payload == [Hostname |-> req.reg.Hostname, IP |-> req.reg.IP,
                       GatewayIP |-> req.reg.GatewayIP, CPUUsage |-> 50]
       IN  /\ last' = [op |-> req.op, status |-> IF r.err THEN 500 ELSE 200,
                       id |-> r.id, payload |-> req.reg,
                       created |-> req.found = 0 /\ ~r.err,
                       before |-> ParentBefore(devices, req.reg.IP)]
           /\ IF r.err
              THEN UNCHANGED <<devices, metrics>>
              ELSE IF req.op = "metrics"
                   THEN LET s == SaveMetrics(r.devices, metrics, r.id, payload, clock + 1)
                        IN  devices' = s.devices /\ metrics' = s.metrics
                   ELSE devices' = r.devices /\ UNCHANGED metrics
    /\ pending' = Without(pending, k)
    /\ tree' = NoTree

\* handleDeviceDelete: DB.Delete(&models.Device{}, id) soft-deletes the row
DeviceDelete(id) ==
    /\ clock < MaxClock
    /\ clock' = clock + 1
    /\ devices' = [i \in DOMAIN devices |->
                      IF i = id THEN [devices[i] EXCEPT !.Deleted = TRUE] ELSE devices[i]]
    /\ last' = [op |-> "delete", status |-> 200, id |-> id]
    /\ tree' = NoTree
    /\ UNCHANGED metrics

\* handleDeviceMetrics: 404 when GetLatestMetrics returns an error, else the row
DeviceMetrics(id) ==
    /\ LET m == GetLatestMetrics(metrics, id)
       IN  last' = IF m = 0
                   THEN [op |-> "latest", status |-> 404, id |-> id]
                   ELSE [op |-> "latest", status |-> 200, id |-> id, data |-> metrics[m]]
    /\ tree' = NoTree
    /\ UNCHANGED <<devices, metrics, clock>>

\* the remarks an operator gives a device
Remarks == {"", "core router"}

\* the operator writes the remark of a device into the store ("set from Web
\* UI"; no route of the server writes it)
SetRemark(id, remark) ==
    /\ id \in Live(devices)
    /\ devices[id].Remark # remark
    /\ devices' = [devices EXCEPT ![id].Remark = remark]
    /\ last' = [op |-> "remark", status |-> 0, id |-> id]
    /\ tree' = NoTree
    /\ UNCHANGED <<metrics, clock>>

\* handleDeviceTree
DeviceTree ==
    /\ \E o \in Orders(Live(devices)) : tree' = GetDeviceTree(devices, o)
    /\ last' = [op |-> "tree", status |-> 200, id |-> 0]
    /\ UNCHANGED <<devices, metrics, clock>>

----------------------------------------------------------------------------
(* Routing and authentication.  A request arrives on the listener of a      *)
(* plane for a route, with an Authorization header; the header is modelled   *)
(* by its parts around the first space (<<>> for a missing or empty header). *)
(* The gin engine of the plane answers 404 for a route it has not            *)
(* registered, runs the middleware of the route's group, and then the        *)
(* handler.                                                                  *)

\* v.SetDefault("agent_token", "opentalon-secret-key-123")
agentToken == "opentalon-secret-key-123"

\* the tokens parseJWT accepts: signed with jwtSecret and not expired
ValidJWTs == {"jwt-valid"}

\* the Authorization headers of the requests: none, the agent token without
\* scheme, and the agent token, a valid and an expired JWT as bearer tokens
Headers == {<<>>, <<agentToken>>, <<"Bearer", agentToken>>, <<"bearer", agentToken>>,
            <<"Bearer", "jwt-valid">>, <<"bearer", "jwt-valid">>,
            <<"Bearer", "jwt-expired">>}

\* the reports the requests of the data plane carry
RoutedRegistrations == {p \in ConcurrentRegistrations : p.Hostname = "hostA"}
RoutedReports == {p \in ConcurrentReports : p.IP = "10.0.0.1"}

\* a data plane that admits every request with an Authorization header
AgentTokenMiddlewareAnyHeader(raw) == raw # <<>>

\* AgentTokenMiddleware: c.Next() unless raw == "" || raw != "Bearer " + agentToken
AgentTokenMiddleware(raw) == raw # <<>> /\ raw = <<"Bearer", agentToken>>

\* strings.EqualFold(parts[0], "Bearer")
EqualFoldBearer(str) == str \in {"Bearer", "bearer"}

\* JWTMiddleware: c.Next() for "Bearer <jwt>" with a token parseJWT accepts
JWTMiddleware(raw) ==
    /\ raw # <<>>
    /\ Len(raw) = 2
    /\ EqualFoldBearer(raw[1])
    /\ raw[2] \in ValidJWTs

\* the routes RegisterDataRoutes registers, and those of its group /api
DataRoutes == {"POST /api/devices/register", "POST /api/metrics", "GET /healthz"}
DataProtected == {"POST /api/devices/register", "POST /api/metrics"}

\* the routes RegisterControlRoutes registers, and those of its group auth
ControlRoutes == {"GET /api/health", "GET /api/devices/tree",
                  "GET /api/devices/:id/metrics", "DELETE /api/devices/:id"}
ControlProtected == ControlRoutes \ {"GET /api/health"}

Routes == DataRoutes \cup ControlRoutes

NoHTTPRequest == [plane |-> "", route |-> "", header |-> <<>>]

\* an answer given without a handler of the store: 404 of the engine, 401 of
\* a middleware (c.AbortWithStatusJSON), 200 of a health route
Answer(op, status) ==
    /\ last' = [op |-> op, status |-> status, id |-> 0]
    /\ UNCHANGED <<devices, metrics, clock, tree>>

\* a request on the data-plane listener
DataRequest(route, raw) ==
    /\ request' = [plane |-> "data", route |-> route, header |-> raw]
    /\ IF route \notin DataRoutes THEN Answer("not found", 404)
       ELSE IF route \in DataProtected /\ ~AgentTokenMiddleware(raw)
            THEN Answer("unauthorized", 401)
       ELSE IF route = "POST /api/devices/register"
            THEN \E payload \in RoutedRegistrations : DeviceRegister(payload)
       ELSE IF route = "POST /api/metrics"
            THEN \E payload \in RoutedReports : MetricsIngest(payload)
       ELSE Answer("health", 200)

\* a request on the control-plane listener
ControlRequest(route, raw) ==
    /\ request' = [plane |-> "control", route |-> route, header |-> raw]
    /\ IF route \notin ControlRoutes THEN Answer("not found", 404)
       ELSE IF route \in ControlProtected /\ ~JWTMiddleware(raw)
            THEN Answer("unauthorized", 401)
       ELSE IF route = "GET /api/devices/tree" THEN DeviceTree
       ELSE IF route = "GET /api/devices/:id/metrics"
            THEN \E id \in DeviceIDs : DeviceMetrics(id)
       ELSE IF route = "DELETE /api/devices/:id"
            THEN \E id \in DeviceIDs : DeviceDelete(id)
       ELSE Answer("health", 200)

----------------------------------------------------------------------------
(* The record store rejecting a write.  GORM assigns the new values to the   *)
(* struct an update is built from before the statement runs, so the code     *)
(* that follows a rejected update sees in dev what it asked the store to     *)
(* write, while queries see the table.                                       *)

\* the writes UpsertDevice and SaveMetrics issue: DB.Create(&dev), the update
\* of the mutable fields, the update of parent_id from the report, the update
\* of parent_id in wireParent, the closing update of is_online and last_seen,
\* DB.Create(m), and the update of is_online and last_seen in SaveMetrics
Writes == {"create", "mutable", "parent", "wire", "online", "insert", "seen"}

\* UpsertDevice while the store rejects write w: the table after the call, the
\* returned id, whether the call returned an error, and the writes that were
\* issued and rejected
UpsertDeviceRejecting(devs, payload, now, w) ==
    LET found == First(devs, payload.IP)
    IN  IF found = 0
        THEN IF w = "create" \/ UniqueIPViolation(devs, payload.IP)
             THEN [devices |-> devs, id |-> 0, err |-> TRUE, rejected |-> {"create"}]
             ELSE LET created == Append(devs, NewDevice(payload))
                      id == Len(created)
                      parent == First(created, created[id].GatewayIP)
                      wires == /\ created[id].ParentID = Nil
                               /\ created[id].GatewayIP # ""
                               /\ parent # 0 /\ parent # id
                      wired == IF wires /\ w # "wire"
                               THEN [created EXCEPT ![id].ParentID = parent]
                               ELSE created
                  IN  [devices |-> IF w = "online" THEN wired
                                   ELSE MarkOnline(wired, id, now),
                       id |-> id, err |-> FALSE,
                       rejected |-> {w} \cap ({"online"} \cup
                                               IF wires THEN {"wire"} ELSE {})]
        ELSE LET dev == UpdateParent(UpdateMutable(devs, found, payload, now),
                                     found, payload)[found]
                 mutated == IF w = "mutable" THEN devs
                            ELSE UpdateMutable(devs, found, payload, now)
                 explicit == IF w = "parent" THEN mutated
                             ELSE UpdateParent(mutated, found, payload)
                 parent == First(explicit, dev.GatewayIP)
                 wires == /\ dev.ParentID = Nil
                          /\ dev.GatewayIP # ""
                          /\ parent # 0 /\ parent # found
                 wired == IF wires /\ w # "wire"
                          THEN [explicit EXCEPT ![found].ParentID = parent]
                          ELSE explicit
             IN  [devices |-> IF w = "online" THEN wired
                              ELSE MarkOnline(wired, found, now),
                  id |-> found, err |-> FALSE,
                  rejected |-> {w} \cap ({"mutable", "online"}
                                 \cup (IF payload.ParentID # Nil THEN {"parent"} ELSE {})
                                 \cup (IF wires THEN {"wire"} ELSE {}))]

\* SaveMetrics while the store rejects write w
SaveMetricsRejecting(devs, mets, deviceID, payload, now, w) ==
    IF w = "insert"
    THEN [metrics |-> mets, devices |-> devs, err |-> TRUE, rejected |-> {"insert"}]
    ELSE [metrics |-> Append(mets, NewMetrics(deviceID, payload, now)),
          devices |-> IF w = "seen" THEN devs ELSE MarkOnline(devs, deviceID, now),
          err |-> FALSE,
          rejected |-> {w} \cap {"seen"}]

\* handleDeviceRegister while the store rejects write w of the request
DeviceRegisterRejecting(payload, w) ==
    /\ clock < MaxClock
    /\ rejections < MaxRejections
    /\ clock' = clock + 1
    /\ rejections' = rejections + 1
    /\ LET r == UpsertDeviceRejecting(devices, payload, clock + 1, w)
       IN  /\ w \in r.rejected
           /\ devices' = r.devices
           /\ last' = [op |-> "register", status |-> IF r.err THEN 500 ELSE 200,
                       id |-> r.id, payload |-> payload,
                       created |-> First(devices, payload.IP) = 0 /\ ~r.err,
                       before |-> ParentBefore(devices, payload.IP),
                       rejected |-> r.rejected]
    /\ tree' = NoTree
    /\ UNCHANGED metrics

\* handleMetricsIngest while the store rejects write w of the request
MetricsIngestRejecting(payload, w) ==
    /\ clock < MaxClock
    /\ Len(metrics) < MaxMetrics
    /\ rejections < MaxRejections
    /\ clock' = clock + 1
    /\ rejections' = rejections + 1
    /\ LET known == First(devices, payload.IP)
           r == IF known = 0
                THEN UpsertDeviceRejecting(devices, SynthesizedRegistration(payload),
                                           clock + 1, w)
                ELSE [devices |-> devices, id |-> known, err |-> FALSE, rejected |-> {}]
       IN  IF r.err
           THEN /\ w \in r.rejected
                /\ UNCHANGED <<devices, metrics>>
                /\ last' = [op |-> "metrics", status |-> 500, id |-> 0,
                            payload |-> payload, created |-> FALSE, before |-> Nil,
                            rejected |-> r.rejected]
           ELSE LET s == SaveMetricsRejecting(r.devices, metrics, r.id, payload,
                                              clock + 1, w)
                IN  /\ w \in r.rejected \cup s.rejected
                    /\ devices' = s.devices
                    /\ metrics' = s.metrics
                    /\ last' = [op |-> "metrics",
                                status |-> IF s.err THEN 500 ELSE 200,
                                id |-> r.id, payload |-> payload,
                                created |-> known = 0,
                                before |-> ParentBefore(devices, payload.IP),
                                rejected |-> r.rejected \cup s.rejected]
    /\ tree' = NoTree

----------------------------------------------------------------------------
(* The agent's bandwidth collector.  Counters are unsigned and rates signed  *)
(* integers of CounterBits bits (64 in the program); the clock counts ticks  *)
(* of 1/TicksPerSecond s (nanoseconds in the program).                       *)

CounterBits == 3
TicksPerSecond == 2

Modulus == 2 ^ CounterBits
MaxInt64 == 2 ^ (CounterBits - 1) - 1
MinInt64 == -(2 ^ (CounterBits - 1))
Counters == 0..(Modulus - 1)

\* curRx - c.prevRx on uint64: the difference wraps around
Sub(cur, prev) == (cur - prev) % Modulus

\* the difference divided by the raw tick count instead of the seconds
QuotientPerTick(cur, prev, dt) == Sub(cur, prev) \div dt

\* float64(cur - prev) / dt, dt = now.Sub(c.prevTime).Seconds(); the integer part
Quotient(cur, prev, dt) == (Sub(cur, prev) * TicksPerSecond) \div dt

\* int64(f): truncation when the value fits; when it does not, the result is
\* implementation-dependent (the smallest int64 on amd64, the largest on arm64)
ToInt64(q) == IF q <= MaxInt64 THEN {q} ELSE {MinInt64, MaxInt64}

\* "if rxBps < 0 { rxBps = 0 }"
Clamp(r) == IF r < 0 THEN 0 ELSE r

\* the rate computed without looking at c.initialized
RateUninitialized(init, cur, prev, dt) ==
    IF dt > 0
    THEN {Clamp(r) : r \in ToInt64(Quotient(cur, prev, dt))}
    ELSE {0}

\* the rates one direction may report
Rate(init, cur, prev, dt) ==
    IF init /\ dt > 0
    THEN {Clamp(r) : r \in ToInt64(Quotient(cur, prev, dt))}
    ELSE {0}

\* netBandwidth with psnet.IOCounters failing: (0, 0), nothing stored
netBandwidthFail ==
    /\ nCollect < MaxCollects
    /\ nCollect' = nCollect + 1
    /\ rxBps' = 0
    /\ txBps' = 0
    /\ increasing' = FALSE
    /\ UNCHANGED <<prevRx, prevTx, prevTime, initialized>>

\* netBandwidth reading the counters curRx, curTx at time now
netBandwidth(curRx, curTx, now) ==
    /\ nCollect < MaxCollects
    /\ nCollect' = nCollect + 1
    /\ rxBps' \in Rate(initialized, curRx, prevRx, now - prevTime)
    /\ txBps' \in Rate(initialized, curTx, prevTx, now - prevTime)
    /\ prevRx' = curRx
    /\ prevTx' = curTx
    /\ prevTime' = now
    /\ initialized' = TRUE
    /\ increasing' = (increasing /\ (initialized =>
                          curRx > prevRx /\ curTx > prevTx /\ now > prevTime))

\* the clock readings open to the next call: the monotonic clock never runs
\* backwards, and the process starts after the zero time
Readings == {t \in 1..MaxAgentTime : t >= prevTime}

\* the goroutines that call Collect on one Collector
Callers == {1, 2}

\* a goroutine outside netBandwidth
Idle == [pc |-> "idle", curRx |-> 0, curTx |-> 0, now |-> 0]

\* the operating system counts traffic and its clock runs on: the cumulative
\* counters only grow
OsAdvance(rx, tx) ==
    /\ os.now < MaxAgentTime
    /\ os' = [rx |-> os.rx + rx, tx |-> os.tx + tx, now |-> os.now + 1]
    /\ UNCHANGED <<collectorVars, callers, mu>>

\* stats, err := psnet.IOCounters(false); curRx, curTx are stats[0]'s counters
ReadCounters(t) ==
    /\ callers[t].pc = "idle"
    /\ nCollect < MaxCollects
    /\ nCollect' = nCollect + 1
    /\ callers' = [callers EXCEPT ![t] = [pc |-> "counted", curRx |-> os.rx,
                                          curTx |-> os.tx, now |-> 0]]
    /\ UNCHANGED <<prevRx, prevTx, prevTime, initialized, rxBps, txBps, increasing,
                   mu, os>>

\* psnet.IOCounters(false) failing, or returning no interface: the call
\* returns (0, 0) before it reads the clock or takes c.mu
ReadCountersFail(t) ==
    /\ callers[t].pc = "idle"
    /\ nCollect < MaxCollects
    /\ nCollect' = nCollect + 1
    /\ rxBps' = 0
    /\ txBps' = 0
    /\ increasing' = FALSE
    /\ UNCHANGED <<prevRx, prevTx, prevTime, initialized, callers, mu, os>>

\* now := time.Now()
ReadClock(t) ==
    /\ callers[t].pc = "counted"
    /\ callers' = [callers EXCEPT ![t].pc = "sampled", ![t].now = os.now]
    /\ UNCHANGED <<collectorVars, mu, os>>

\* c.mu.Lock()
Lock(t) ==
    /\ callers[t].pc = "sampled"
    /\ mu = 0
    /\ mu' = t
    /\ callers' = [callers EXCEPT ![t].pc = "locked"]
    /\ UNCHANGED <<collectorVars, os>>

\* a netBandwidth that stores the call's sample only where it computes rates
StoreWhenElapsed(t) ==
    /\ callers[t].pc = "locked"
    /\ mu = t
    /\ LET c == callers[t]
           elapsed == initialized /\ c.now - prevTime > 0
       IN  /\ rxBps' \in Rate(initialized, c.curRx, prevRx, c.now - prevTime)
           /\ txBps' \in Rate(initialized, c.curTx, prevTx, c.now - prevTime)
           /\ prevRx' = IF elapsed THEN c.curRx ELSE prevRx
           /\ prevTx' = IF elapsed THEN c.curTx ELSE prevTx
           /\ prevTime' = IF elapsed THEN c.now ELSE prevTime
           /\ initialized' = TRUE
           /\ increasing' = increasing
    /\ mu' = 0
    /\ callers' = [callers EXCEPT ![t] = Idle]
    /\ UNCHANGED <<nCollect, os>>

\* the rest of netBandwidth under the lock: the rates against the stored
\* sample, the call's sample stored as the previous one, and the deferred
\* c.mu.Unlock()
StoreAndUnlock(t) ==
    /\ callers[t].pc = "locked"
    /\ mu = t
    /\ LET c == callers[t]
       IN  /\ rxBps' \in Rate(initialized, c.curRx, prevRx, c.now - prevTime)
           /\ txBps' \in Rate(initialized, c.curTx, prevTx, c.now - prevTime)
           /\ prevRx' = c.curRx
           /\ prevTx' = c.curTx
           /\ prevTime' = c.now
           /\ initialized' = TRUE
           /\ increasing' = (increasing /\ (initialized =>
                                 c.curRx > prevRx /\ c.curTx > prevTx
                                 /\ c.now > prevTime))
    /\ mu' = 0
    /\ callers' = [callers EXCEPT ![t] = Idle]
    /\ UNCHANGED <<nCollect, os>>

----------------------------------------------------------------------------
(* The agent: Run warms the collector up, registers, and reports metrics on  *)
(* every tick.                                                               *)

\* Run beginning with the collection for the registration
EntryWithoutWarmup == "initial"

\* Run begins with "_, _ = collector.Collect()"
Entry == "warmup"

NoSnapshot == [collect |-> 0, RxBytes |-> 0, TxBytes |-> 0]

\* counter readings (rx, tx) the agent's host presents
Samples == {<<1, 2>>, <<3, 5>>}

\* collector.Collect(): one call of netBandwidth, later than the previous one
\* (Collect measures the cpu use over 500 ms before); the snapshot carries the
\* rates of that call
Collect ==
    /\ \/ \E s \in Samples, now \in {t \in Readings : t > prevTime} :
             netBandwidth(s[1], s[2], now)
       \/ netBandwidthFail
    /\ snap' = [collect |-> nCollect', RxBytes |-> rxBps', TxBytes |-> txBps']

\* what the server or the network may answer to a request
Responses == {"transport failure", "timeout", "200", "401", "500"}

\* postJSON: an error for a failed client.Do, for 401 and for every status >= 400
postJSON(response) == response # "200"

\* the warm-up: the snapshot is discarded, then time.Sleep
Warmup ==
    /\ agentPc = "warmup"
    /\ Collect
    /\ agentPc' = "initial"
    /\ UNCHANGED sent

\* "snap, err := collector.Collect()" for the registration
InitialCollect ==
    /\ agentPc = "initial"
    /\ Collect
    /\ agentPc' = "register"
    /\ UNCHANGED sent

\* v.SetDefault("agent_parent_id", 0); the command has not read its flags yet
DefaultConfig == [AgentParentID |-> 0, loaded |-> FALSE]

\* the values of the flag --parent (0 when the flag is not given)
ParentFlags == {0, 1}

\* a registration that carries the configured parent id whatever it is
ParentIDAlways(c) == c.AgentParentID

\* "if cfg.AgentParentID != 0 { id := cfg.AgentParentID; parentID = &id }"
ParentIDOf(c) == IF c.AgentParentID # 0 THEN c.AgentParentID ELSE Nil

\* postJSON(base+"/api/devices/register", token, reg): an error is printed
Register(response) ==
    /\ agentPc = "register"
    /\ sent' = Append(sent, [url |-> "/api/devices/register", collect |-> snap.collect,
                             RxBytes |-> snap.RxBytes, TxBytes |-> snap.TxBytes,
                             ParentID |-> ParentIDOf(cfg),
                             err |-> postJSON(response)])
    /\ agentPc' = "tick"
    /\ UNCHANGED <<snap, collectorVars>>

\* "for range ticker.C { snap, err := collector.Collect()"
TickCollect ==
    /\ agentPc = "tick"
    /\ Collect
    /\ agentPc' = "post"
    /\ UNCHANGED sent

\* a loop that posts the report again until the server accepts it
RetryAfterError(err) == IF err THEN "post" ELSE "tick"

\* where the loop goes after postJSON: an error is printed, and the loop waits
\* for the next tick
AfterPost(err) == "tick"

\* postJSON(base+"/api/metrics", token, payload); MetricsPayload has no parent id
Post(response) ==
    /\ agentPc = "post"
    /\ sent' = Append(sent, [url |-> "/api/metrics", collect |-> snap.collect,
                             RxBytes |-> snap.RxBytes, TxBytes |-> snap.TxBytes,
                             ParentID |-> Nil,
                             err |-> postJSON(response)])
    /\ agentPc' = AfterPost(postJSON(response))
    /\ UNCHANGED <<snap, collectorVars>>

\* the agent command: the configuration is loaded and --parent, if not 0,
\* replaces its parent id; Run is called with it
LoadConfig(parent) ==
    /\ ~cfg.loaded
    /\ agentPc = Entry
    /\ cfg' = [AgentParentID |-> parent, loaded |-> TRUE]
    /\ UNCHANGED <<agentVars, collectorVars, ticker>>

\* ticker.C before time.NewTicker, and when no tick waits
NoTicker == [buffered |-> 0, fired |-> 0]

\* a ticker whose channel keeps every tick until it is received
TickerQueues ==
    /\ agentPc \in {"tick", "post"}
    /\ ticker.fired < MaxTicks
    /\ ticker' = [buffered |-> ticker.buffered + 1, fired |-> ticker.fired + 1]
    /\ UNCHANGED <<agentVars, collectorVars, cfg>>

\* the interval of the ticker made by time.NewTicker elapses: ticker.C has
\* room for one tick, and a tick that finds it full is dropped
TickerFires ==
    /\ agentPc \in {"tick", "post"}
    /\ ticker.fired < MaxTicks
    /\ ticker' = [buffered |-> 1, fired |-> ticker.fired + 1]
    /\ UNCHANGED <<agentVars, collectorVars, cfg>>

\* "for range ticker.C": the loop receives a tick and begins a cycle
TickCycle ==
    /\ ticker.buffered > 0
    /\ ticker' = [ticker EXCEPT !.buffered = @ - 1]
    /\ TickCollect
    /\ UNCHANGED cfg

----------------------------------------------------------------------------
(* The server command: RunE starts the two listeners, waits in a select for  *)
(* the first listener result or an interrupt, and returns; main exits the    *)
(* process when the command has returned.                                    *)

Listeners == {"ctrlSrv", "dataSrv"}

NoResult == [srv |-> "", err |-> "none"]
\* "return nil"
Success == [srv |-> "", err |-> "nil"]
\* "loading config: ..." or "initializing database: ..."
StartupError == [srv |-> "", err |-> "startup"]
\* what srv.ListenAndServe() returns when it ends on its own
ListenError(l) == [srv |-> l, err |-> "listen"]
\* what srv.ListenAndServe() returns once srv.Shutdown has been called
ErrServerClosed(l) == [srv |-> l, err |-> "http: Server closed"]

\* the process runs and signal.Notify(quit, os.Interrupt) has been called
Notified == phase \in {"Running", "ShuttingDown", "Returned"}

\* config.Load or server.InitDB fails: RunE returns the error
StartFails ==
    /\ phase = "Starting"
    /\ phase' = "Returned"
    /\ result' = StartupError
    /\ UNCHANGED <<listeners, active, errCh, quit, expired, calls>>

\* "go func() { errCh <- ctrlSrv.ListenAndServe() }()", the same for dataSrv,
\* signal.Notify, and RunE blocks in the select
Start ==
    /\ phase = "Starting"
    /\ phase' = "Running"
    /\ listeners' = [l \in Listeners |-> "serving"]
    /\ UNCHANGED <<active, errCh, quit, expired, calls, result>>

\* ListenAndServe of l returns on its own; its goroutine sends the error
ListenerFails(l) ==
    /\ Notified
    /\ listeners[l] = "serving"
    /\ listeners' = [listeners EXCEPT ![l] = "failed"]
    /\ errCh' = Append(errCh, ListenError(l))
    /\ UNCHANGED <<phase, active, quit, expired, calls, result>>

\* listener l accepts a request
RequestBegin(l) ==
    /\ listeners[l] = "serving"
    /\ active[l] < MaxActive
    /\ active' = [active EXCEPT ![l] = @ + 1]
    /\ UNCHANGED <<phase, listeners, errCh, quit, expired, calls, result>>

\* a request of listener l is answered
RequestEnd(l) ==
    /\ phase # "Exited"
    /\ active[l] > 0
    /\ active' = [active EXCEPT ![l] = @ - 1]
    /\ UNCHANGED <<phase, listeners, errCh, quit, expired, calls, result>>

\* SIGINT arrives: quit has room for one signal, further ones are dropped
Interrupt ==
    /\ Notified
    /\ quit' = 1
    /\ UNCHANGED <<phase, listeners, active, errCh, expired, calls, result>>

\* "case err := <-errCh: return err"
SelectErr ==
    /\ phase = "Running"
    /\ errCh # <<>>
    /\ result' = Head(errCh)
    /\ errCh' = Tail(errCh)
    /\ phase' = "Returned"
    /\ UNCHANGED <<listeners, active, quit, expired, calls>>

\* "case <-quit:" and context.WithTimeout(context.Background(), 5*time.Second)
SelectQuit ==
    /\ phase = "Running"
    /\ quit = 1
    /\ quit' = 0
    /\ phase' = "ShuttingDown"
    /\ UNCHANGED <<listeners, active, errCh, expired, calls, result>>

\* a shutdown context without deadline (context.Background()): it never expires
ExpireNever ==
    /\ FALSE
    /\ UNCHANGED <<phase, listeners, active, errCh, quit, expired, calls, result>>

\* the deadline of ctx passes
Expire ==
    /\ phase = "ShuttingDown"
    /\ ~expired
    /\ expired' = TRUE
    /\ UNCHANGED <<phase, listeners, active, errCh, quit, calls, result>>

\* the data-plane listener shut down before the control-plane listener
ShutdownOrderReversed == <<"dataSrv", "ctrlSrv">>

\* "_ = ctrlSrv.Shutdown(ctx)" then "_ = dataSrv.Shutdown(ctx)"
ShutdownOrder == <<"ctrlSrv", "dataSrv">>

Pending == calls # <<>> /\ calls[Len(calls)].returned = "pending"

\* the next srv.Shutdown(ctx) is called: the listener stops accepting, and
\* its ListenAndServe returns ErrServerClosed
ShutdownCall ==
    /\ phase = "ShuttingDown"
    /\ ~Pending
    /\ Len(calls) < Len(ShutdownOrder)
    /\ LET l == ShutdownOrder[Len(calls) + 1]
       IN  /\ calls' = Append(calls, [srv |-> l, returned |-> "pending"])
           /\ IF listeners[l] = "serving"
              THEN /\ listeners' = [listeners EXCEPT ![l] = "closed"]
                   /\ errCh' = Append(errCh, ErrServerClosed(l))
              ELSE UNCHANGED <<listeners, errCh>>
    /\ UNCHANGED <<phase, active, quit, expired, result>>

\* the pending srv.Shutdown(ctx) returns: nil once no request of the listener
\* is active, ctx.Err() when requests are active and the deadline has passed
ShutdownReturn ==
    /\ phase = "ShuttingDown"
    /\ Pending
    /\ LET l == calls[Len(calls)].srv
       IN  \/ /\ active[l] = 0
              /\ calls' = [calls EXCEPT ![Len(calls)].returned = "nil"]
           \/ /\ active[l] > 0
              /\ expired
              /\ calls' = [calls EXCEPT ![Len(calls)].returned = "deadline exceeded"]
    /\ UNCHANGED <<phase, listeners, active, errCh, quit, expired, result>>

\* RunE returning the first error a Shutdown call reported
ShutdownErrorReturned(cs) ==
    IF \E i \in DOMAIN cs : cs[i].returned # "nil"
    THEN [srv |-> "", err |-> "deadline exceeded"]
    ELSE Success

\* what RunE returns after the two Shutdown calls: their results are discarded
ShutdownResult(cs) == Success

\* a command that waits in the select again after the two Shutdown calls
ShutdownDoneSelectsAgain ==
    /\ phase = "ShuttingDown"
    /\ ~Pending
    /\ Len(calls) = Len(ShutdownOrder)
    /\ calls' = <<>>
    /\ phase' = "Running"
    /\ UNCHANGED <<listeners, active, errCh, quit, expired, result>>

\* "return nil" after the two Shutdown calls
ShutdownDone ==
    /\ phase = "ShuttingDown"
    /\ ~Pending
    /\ Len(calls) = Len(ShutdownOrder)
    /\ result' = ShutdownResult(calls)
    /\ phase' = "Returned"
    /\ UNCHANGED <<listeners, active, errCh, quit, expired, calls>>

\* a process in which the goroutines outlive the command
ExitLeavesGoroutines(ls) == ls

\* the end of the process ends every goroutine
ExitProcess(ls) == [l \in DOMAIN ls |-> "dead"]

\* main: os.Exit(1) when root.Execute() returned an error, else main returns
Exit ==
    /\ phase = "Returned"
    /\ phase' = "Exited"
    /\ listeners' = ExitProcess(listeners)
    /\ active' = [l \in Listeners |-> IF listeners'[l] = "dead" THEN 0 ELSE active[l]]
    /\ UNCHANGED <<errCh, quit, expired, calls, result>>

\* the exit status of the process
ExitCode == IF result = Success THEN 0 ELSE 1

----------------------------------------------------------------------------
(* The two listener goroutines of serverCmd.RunE step by step: each is       *)
(* started by its go statement, runs ListenAndServe and sends what that      *)
(* returns to errCh.  A goroutine is "spawned" before ListenAndServe         *)
(* listens, "failing" or "closing" when ListenAndServe has returned (on its  *)
(* own, or after Shutdown) and the value is not sent yet, and "failed" or    *)
(* "closed" when it has sent.                                                *)

\* errCh := make(chan error, 2)
ErrChCapacity == 2

\* a channel with one slot less
HasRoomOneSlotLess(ch) == Len(ch) < ErrChCapacity - 1

\* a send to the buffered channel proceeds while the buffer has room
HasRoom(ch) == Len(ch) < ErrChCapacity

\* the two go statements and signal.Notify; RunE blocks in the select
Spawn ==
    /\ phase = "Starting"
    /\ phase' = "Running"
    /\ listeners' = [l \in Listeners |-> "spawned"]
    /\ UNCHANGED <<active, errCh, quit, expired, calls, result>>

\* the goroutine of l calls srv.ListenAndServe(), which listens
WorkerListens(l) ==
    /\ Notified
    /\ listeners[l] = "spawned"
    /\ listeners' = [listeners EXCEPT ![l] = "serving"]
    /\ UNCHANGED <<phase, active, errCh, quit, expired, calls, result>>

\* ListenAndServe of l returns an error on its own (the address is in use, or
\* the listener breaks later)
WorkerFails(l) ==
    /\ Notified
    /\ listeners[l] \in {"spawned", "serving"}
    /\ listeners' = [listeners EXCEPT ![l] = "failing"]
    /\ UNCHANGED <<phase, active, errCh, quit, expired, calls, result>>

\* "errCh <- ...": the goroutine of l sends what ListenAndServe returned, and ends
WorkerSends(l) ==
    /\ Notified
    /\ listeners[l] \in {"failing", "closing"}
    /\ HasRoom(errCh)
    /\ errCh' = Append(errCh, IF listeners[l] = "failing" THEN ListenError(l)
                              ELSE ErrServerClosed(l))
    /\ listeners' = [listeners EXCEPT ![l] = IF @ = "failing" THEN "failed" ELSE "closed"]
    /\ UNCHANGED <<phase, active, quit, expired, calls, result>>

\* the next srv.Shutdown(ctx) is called: ListenAndServe of the listener returns
\* ErrServerClosed, now or as soon as it is called
WorkerShutdownCall ==
    /\ phase = "ShuttingDown"
    /\ ~Pending
    /\ Len(calls) < Len(ShutdownOrder)
    /\ LET l == ShutdownOrder[Len(calls) + 1]
       IN  /\ calls' = Append(calls, [srv |-> l, returned |-> "pending"])
           /\ listeners' = IF listeners[l] \in {"spawned", "serving"}
                           THEN [listeners EXCEPT ![l] = "closing"]
                           ELSE listeners
    /\ UNCHANGED <<phase, active, errCh, quit, expired, result>>

----------------------------------------------------------------------------

Init ==
    /\ devices = <<>>
    /\ metrics = <<>>
    /\ clock = 0
    /\ last = NoRequest
    /\ tree = NoTree
    /\ prevRx = 0
    /\ prevTx = 0
    /\ prevTime = 0
    /\ initialized = FALSE
    /\ rxBps = 0
    /\ txBps = 0
    /\ nCollect = 0
    /\ increasing = TRUE
    /\ rejections = 0
    /\ phase = "Starting"
    /\ listeners = [l \in Listeners |-> "idle"]
    /\ active = [l \in Listeners |-> 0]
    /\ errCh = <<>>
    /\ quit = 0
    /\ expired = FALSE
    /\ calls = <<>>
    /\ result = NoResult
    /\ agentPc = Entry
    /\ snap = NoSnapshot
    /\ sent = <<>>
    /\ inflight = <<>>
    /\ pending = <<>>
    /\ callers = [t \in Callers |-> Idle]
    /\ mu = 0
    /\ os = [rx |-> 0, tx |-> 0, now |-> 1]
    /\ cfg = DefaultConfig
    /\ ticker = NoTicker
    /\ request = NoHTTPRequest

Next ==
    \/ \E payload \in RegisterPayload : DeviceRegister(payload) /\ UNCHANGED besidesServer
    \/ \E payload \in MetricsPayload : MetricsIngest(payload) /\ UNCHANGED besidesServer
    \/ \E id \in DeviceIDs : DeviceDelete(id) /\ UNCHANGED besidesServer

\* the data plane's reports and the operator's deletes
Spec == Init /\ [][Next]_vars

NextTree ==
    \/ Next
    \/ DeviceTree /\ UNCHANGED besidesServer

\* the same, with the operator's tree queries
SpecTree == Init /\ [][NextTree]_vars

NextForest ==
    \/ \E payload \in RegisterPayload : DeviceRegister(payload) /\ UNCHANGED besidesServer
    \/ \E id \in DeviceIDs : DeviceDelete(id) /\ UNCHANGED besidesServer
    \/ DeviceTree /\ UNCHANGED besidesServer

\* registrations, deletes and tree queries, without metrics reports
SpecForest == Init /\ [][NextForest]_vars

NextRemarks ==
    \/ \E payload \in RoutedRegistrations : DeviceRegister(payload) /\ UNCHANGED besidesServer
    \/ \E id \in DeviceIDs, remark \in Remarks :
          SetRemark(id, remark) /\ UNCHANGED besidesServer
    \/ DeviceTree /\ UNCHANGED besidesServer

\* tree queries on a store in which the operator has given devices a remark
SpecRemarks == Init /\ [][NextRemarks]_vars

\* reports that carry no explicit parent id, and no operator request
NextAuto ==
    \/ \E payload \in {p \in RegisterPayload : p.ParentID = Nil} :
          DeviceRegister(payload) /\ UNCHANGED besidesServer
    \/ \E payload \in MetricsPayload : MetricsIngest(payload) /\ UNCHANGED besidesServer

SpecAuto == Init /\ [][NextAuto]_vars

NextInterleaved ==
    \/ \E id \in DeviceIDs : DeviceDelete(id) /\ UNCHANGED besidesServer
    \/ \E payload \in MetricsPayload : IngestResolve(payload) /\ UNCHANGED besidesIngest
    \/ IngestSave /\ UNCHANGED besidesIngest

\* metrics reports, and deletes handled while a report is between its device
\* lookup and its SaveMetrics
SpecInterleaved == Init /\ [][NextInterleaved]_vars

NextConcurrent ==
    \/ \E payload \in ConcurrentRegistrations :
          RegisterLookup(payload) /\ UNCHANGED besidesUpsert
    \/ \E payload \in ConcurrentReports :
          IngestLookup(payload) /\ UNCHANGED besidesUpsert
    \/ \E k \in DOMAIN pending : UpsertLookup(k) /\ UNCHANGED besidesUpsert
    \/ \E k \in DOMAIN pending : UpsertWrite(k) /\ UNCHANGED besidesUpsert

\* registrations and metrics reports of unknown ips handled concurrently: the
\* lookups and the writes of the requests interleave
SpecConcurrent == Init /\ [][NextConcurrent]_vars

NextRouter ==
    \/ \E route \in Routes, raw \in Headers :
          DataRequest(route, raw) /\ UNCHANGED besidesRouter
    \/ \E route \in Routes, raw \in Headers :
          ControlRequest(route, raw) /\ UNCHANGED besidesRouter

\* the requests of any client on the two listeners, through routing and
\* authentication
SpecRouter == Init /\ [][NextRouter]_vars

NextLatest ==
    \/ NextAuto
    \/ \E id \in DeviceIDs : DeviceMetrics(id) /\ UNCHANGED besidesServer

\* the same reports, with the operator's queries for a device's latest metrics
SpecLatest == Init /\ [][NextLatest]_vars

NextRejecting ==
    \/ Next
    \/ \E payload \in RegisterPayload, w \in Writes :
          DeviceRegisterRejecting(payload, w) /\ UNCHANGED <<collectorVars, sharedVars, serviceVars, agentVars, runVars, inflight,
                       pending, request>>
    \/ \E payload \in MetricsPayload, w \in Writes :
          MetricsIngestRejecting(payload, w) /\ UNCHANGED <<collectorVars, sharedVars, serviceVars, agentVars, runVars, inflight,
                       pending, request>>

\* the data plane's reports and the operator's deletes on a store that may
\* reject a write
SpecRejecting == Init /\ [][NextRejecting]_vars

NextCollector ==
    \/ \E curRx \in Counters, curTx \in Counters, now \in Readings :
          netBandwidth(curRx, curTx, now) /\ UNCHANGED besidesCollector
    \/ netBandwidthFail /\ UNCHANGED besidesCollector

SpecCollector == Init /\ [][NextCollector]_vars

NextShared ==
    \/ \E rx \in 0..1, tx \in 0..1 : OsAdvance(rx, tx) /\ UNCHANGED besidesShared
    \/ \E t \in Callers : ReadCounters(t) /\ UNCHANGED besidesShared
    \/ \E t \in Callers : ReadClock(t) /\ UNCHANGED besidesShared
    \/ \E t \in Callers : Lock(t) /\ UNCHANGED besidesShared
    \/ \E t \in Callers : StoreAndUnlock(t) /\ UNCHANGED besidesShared

\* one Collector shared by goroutines that call Collect concurrently
SpecShared == Init /\ [][NextShared]_vars

NextSampled ==
    \/ OsAdvance(1, 1) /\ UNCHANGED besidesShared
    \/ \E t \in Callers : ReadCounters(t) /\ UNCHANGED besidesShared
    \/ \E t \in Callers : ReadCountersFail(t) /\ UNCHANGED besidesShared
    \/ \E t \in Callers : ReadClock(t) /\ UNCHANGED besidesShared
    \/ \E t \in Callers : Lock(t) /\ UNCHANGED besidesShared
    \/ \E t \in Callers : StoreAndUnlock(t) /\ UNCHANGED besidesShared

\* calls of netBandwidth whose read of the counters may fail, on a host whose
\* counters grow steadily
SpecSampled == Init /\ [][NextSampled]_vars

NextAgent ==
    \/ Warmup /\ UNCHANGED besidesAgent
    \/ InitialCollect /\ UNCHANGED besidesAgent
    \/ \E response \in Responses : Register(response) /\ UNCHANGED besidesAgent
    \/ TickCollect /\ UNCHANGED besidesAgent
    \/ \E response \in Responses : Post(response) /\ UNCHANGED besidesAgent

NextRun ==
    \/ \E parent \in ParentFlags : LoadConfig(parent) /\ UNCHANGED besidesRun
    \/ cfg.loaded /\ Warmup /\ UNCHANGED <<runVars, besidesRun>>
    \/ InitialCollect /\ UNCHANGED <<runVars, besidesRun>>
    \/ \E response \in Responses : Register(response) /\ UNCHANGED <<runVars, besidesRun>>
    \/ TickerFires /\ UNCHANGED besidesRun
    \/ TickCycle /\ UNCHANGED besidesRun
    \/ \E response \in Responses : Post(response) /\ UNCHANGED <<runVars, besidesRun>>

\* the agent command: Run with the loaded configuration, and the ticker of its loop
SpecRun == Init /\ [][NextRun]_vars

\* one run of the agent
SpecAgent == Init /\ [][NextAgent]_vars

\* the steps of the goroutine that runs the server command and main
Main ==
    \/ StartFails
    \/ Start
    \/ SelectErr
    \/ SelectQuit
    \/ ShutdownCall
    \/ ShutdownReturn
    \/ ShutdownDone
    \/ Exit

NextService ==
    \/ Main /\ UNCHANGED besidesService
    \/ \E l \in Listeners : ListenerFails(l) /\ UNCHANGED besidesService
    \/ \E l \in Listeners : RequestBegin(l) /\ UNCHANGED besidesService
    \/ \E l \in Listeners : RequestEnd(l) /\ UNCHANGED besidesService
    \/ Interrupt /\ UNCHANGED besidesService
    \/ Expire /\ UNCHANGED besidesService

MainWithWorkers ==
    \/ StartFails
    \/ Spawn
    \/ SelectErr
    \/ SelectQuit
    \/ WorkerShutdownCall
    \/ ShutdownReturn
    \/ ShutdownDone
    \/ Exit

NextWorkers ==
    \/ MainWithWorkers /\ UNCHANGED besidesService
    \/ \E l \in Listeners : WorkerListens(l) /\ UNCHANGED besidesService
    \/ \E l \in Listeners : WorkerFails(l) /\ UNCHANGED besidesService
    \/ \E l \in Listeners : WorkerSends(l) /\ UNCHANGED besidesService
    \/ Interrupt /\ UNCHANGED besidesService

\* the server process with its listener goroutines scheduled step by step;
\* every goroutine runs whenever it can take a step
SpecWorkers ==
    /\ Init
    /\ [][NextWorkers]_vars
    /\ WF_vars(MainWithWorkers /\ UNCHANGED besidesService)
    /\ \A l \in Listeners : WF_vars(WorkerSends(l) /\ UNCHANGED besidesService)

\* the server process; the scheduler runs the command's goroutine whenever it
\* can take a step, and the timer of the shutdown context fires
SpecService ==
    /\ Init
    /\ [][NextService]_vars
    /\ WF_vars(Main /\ UNCHANGED besidesService)
    /\ WF_vars(Expire /\ UNCHANGED besidesService)

----------------------------------------------------------------------------
(* Topology of the stored devices *)

\* the live device a device's parent reference names, 0 when it names none
ParentOf(devs, i) ==
    IF devs[i].ParentID \in Live(devs) THEN devs[i].ParentID ELSE 0

\* the device reached from i by following k parent references, 0 when the
\* chain ends before
RECURSIVE Ancestor(_, _, _)
Ancestor(devs, i, k) ==
    IF k = 0 \/ i = 0 THEN i ELSE Ancestor(devs, ParentOf(devs, i), k - 1)

OnCycle(devs, i) == \E k \in 1..Len(devs) : Ancestor(devs, i, k) = i

\* the report handled last came from the device with this id and was accepted
ReportFrom(l, devs, i) ==
    /\ l.op \in {"register", "metrics"}
    /\ l.status = 200
    /\ l.payload.IP = devs[i].IP

----------------------------------------------------------------------------
(* Claims *)

\* C1: after any sequence of registrations and metrics reports without an
\* explicit parent id (and no operator request), the parent links form a
\* forest: following parent references from a device never leads back to it.
C1_ParentLinksFormForest ==
    \A i \in Live(devices) : ~OnCycle(devices, i)

\* C2: no device's parent reference equals its own identifier, whether it was
\* auto-wired or taken from the explicit parent id of a report.
C2_NoSelfParent ==
    \A i \in DOMAIN devices : devices[i].ParentID # i

\* C3: late-arriving gateway: a parentless device A whose stored gateway IP G
\* is by now the IP of another device gets that device as parent by the next
\* report from A the server accepts, a registration or a metrics report.
C3_NextReportResolvesGateway ==
    [][\A a \in Live(devices) :
         LET g == First(devices, devices[a].GatewayIP)
         IN  ( /\ devices[a].ParentID = Nil
               /\ g # 0 /\ g # a
               /\ ReportFrom(last', devices, a)
               /\ last'.payload.GatewayIP = devices[a].GatewayIP
               /\ last'.op = "register" => last'.payload.ParentID = Nil )
             => devices'[a].ParentID = g]_vars

\* C4: explicit-parent precedence: for a device that has a parent, UpsertDevice
\* with a report without parent id leaves the stored parent reference as it
\* was, and with an explicit different parent id replaces it by that id.
C4_ExplicitParentPrecedence ==
    [][\A d \in Live(devices) :
         ( /\ devices[d].ParentID # Nil
           /\ last'.op = "register"
           /\ last'.payload.IP = devices[d].IP )
         => /\ last'.status = 200
            /\ last'.payload.ParentID = Nil
                 => devices'[d].ParentID = devices[d].ParentID
            /\ last'.payload.ParentID # Nil
                 => devices'[d].ParentID = last'.payload.ParentID]_vars

\* C4 witness: a registration for a device that had a parent carried another
\* parent id, and the device now has the parent of the report
C4_Witness ==
    /\ last.op = "register" /\ last.status = 200 /\ ~last.created
    /\ last.payload.ParentID # Nil
    /\ last.before # Nil
    /\ last.before # last.payload.ParentID
    /\ devices[last.id].ParentID = last.payload.ParentID

\* the fields of a device that a repeated report is to leave alone
Reported(d) ==
    <<d.Hostname, d.OS, d.GatewayIP, d.Group, d.NetworkMode, d.AgentVer, d.ParentID>>

\* C5: UpsertDevice is idempotent on identical input: a second call with the
\* report that created the device for an unseen IP leaves exactly one device
\* for that IP, with hostname, OS, gateway IP, group, network mode, agent
\* version and parent reference as the first call left them.
C5_UpsertIdempotent ==
    [][( /\ last.op = "register" /\ last.created
         /\ last'.op = "register"
         /\ last'.payload = last.payload )
       => /\ last'.status = 200
          /\ Cardinality({i \in Live(devices') : devices'[i].IP = last.payload.IP}) = 1
          /\ Len(devices') = Len(devices)
          /\ Reported(devices'[last.id]) = Reported(devices[last.id])]_vars

\* C6: a metrics report from an IP with no matching device results in exactly
\* one new device for that IP (group "auto", network mode Bridged, agent
\* version "unknown") and exactly one new metrics record owned by it.
C6_UnknownIPMetricsKept ==
    [][( /\ last'.op = "metrics"
         /\ clock' = clock + 1
         /\ First(devices, last'.payload.IP) = 0 )
       => /\ Len(devices') = Len(devices) + 1
          /\ \A i \in DOMAIN devices : devices'[i] = devices[i]
          /\ LET d == devices'[Len(devices')]
             IN  /\ d.IP = last'.payload.IP
                 /\ ~d.Deleted
                 /\ d.Group = "auto"
                 /\ d.NetworkMode = NetworkModeBridged
                 /\ d.AgentVer = "unknown"
          /\ Len(metrics') = Len(metrics) + 1
          /\ metrics'[Len(metrics')].DeviceID = Len(devices')]_vars

\* the ids occurring in a sequence of ids
Range(seq) == {seq[i] : i \in DOMAIN seq}

\* the nodes of a forest reached from its roots through at most k child lists
RECURSIVE Reached(_, _)
Reached(t, k) ==
    IF k = 0 THEN Range(t.roots)
    ELSE LET r == Reached(t, k - 1)
         IN  r \cup UNION {Range(t.children[p]) : p \in r}

\* how often a node is listed in the forest, as a root or as a child
Count(seq, id) == Cardinality({i \in DOMAIN seq : seq[i] = id})

RECURSIVE Sum(_, _)
Sum(f, S) == IF S = {} THEN 0
             ELSE LET x == CHOOSE y \in S : TRUE IN f[x] + Sum(f, S \ {x})

Listed(t, id) ==
    Count(t.roots, id)
    + Sum([p \in DOMAIN t.children |-> Count(t.children[p], id)], DOMAIN t.children)

\* C7: for every stored device set and every assignment of parent references
\* (orphans, self-references and cycles included) GetDeviceTree returns a
\* forest in which every loaded device occurs exactly once, as a root or as a
\* descendant of a root.
C7_EveryDeviceOnceInForest ==
    tree.built =>
        \A id \in Live(devices) :
            /\ id \in Reached(tree, Len(devices))
            /\ Listed(tree, id) = 1

\* a call of netBandwidth that read the counters later than the stored sample
LaterSample ==
    /\ initialized
    /\ nCollect' = nCollect + 1
    /\ prevTime' > prevTime

\* C8: if a cumulative counter read by Collect is smaller than the value the
\* previous call stored (counter reset), the rate reported for that direction
\* is exactly 0, for every pair of counter values and every positive elapsed
\* time.
C8_CounterResetReportsZero ==
    [][LaterSample =>
         /\ prevRx' < prevRx => rxBps' = 0
         /\ prevTx' < prevTx => txBps' = 0]_vars

\* (current - previous) / (elapsed seconds), rounded toward zero
ExactRate(cur, prev, dt) == ((cur - prev) * TicksPerSecond) \div dt

\* C9: in a sequence of Collect calls whose counters strictly increase while
\* time advances, each call after the first reports for each direction
\* (current - previous) / (elapsed seconds) rounded toward zero, which is >= 0.
C9_RateIsDeltaOverElapsed ==
    [][(LaterSample /\ increasing') =>
         /\ rxBps' = ExactRate(prevRx', prevRx, prevTime' - prevTime)
         /\ txBps' = ExactRate(prevTx', prevTx, prevTime' - prevTime)
         /\ rxBps' >= 0 /\ txBps' >= 0]_vars

\* C9 as amended: the same, for each direction whose quotient fits the signed
\* result type (is below 2^63 in the program); the reported rate is >= 0 in
\* every case.
C9_RateIsDeltaOverElapsedIfRepresentable ==
    [][(LaterSample /\ increasing') =>
         LET dt == prevTime' - prevTime
         IN  /\ ExactRate(prevRx', prevRx, dt) <= MaxInt64
                  => rxBps' = ExactRate(prevRx', prevRx, dt)
             /\ ExactRate(prevTx', prevTx, dt) <= MaxInt64
                  => txBps' = ExactRate(prevTx', prevTx, dt)
             /\ rxBps' >= 0 /\ txBps' >= 0]_vars

\* C9 witness: the third call of a run with increasing counters and advancing
\* time reported two different non-zero rates
C9_Witness ==
    /\ nCollect = 3 /\ increasing
    /\ rxBps > 0 /\ txBps > 0 /\ rxBps # txBps

\* C10: the first Collect call on a freshly constructed collector reports
\* receive rate 0 and transmit rate 0, whatever the counter values are.
C10_FirstCollectReportsZero ==
    nCollect = 1 => rxBps = 0 /\ txBps = 0

\* C10 witness: the first call read non-zero counters and reported 0, 0
C10_Witness ==
    /\ nCollect = 1 /\ initialized
    /\ prevRx > 0 /\ prevTx > 0
    /\ rxBps = 0 /\ txBps = 0

\* a report the server accepted in this step that named the reporting device's
\* own ip as its gateway and carried no explicit parent id
SelfGatewayReport ==
    /\ clock' = clock + 1
    /\ last'.op \in {"register", "metrics"}
    /\ last'.status = 200
    /\ last'.payload.GatewayIP = last'.payload.IP
    /\ last'.op = "register" => last'.payload.ParentID = Nil

\* C11: self-gateway guard: a device whose reported gateway IP equals its own
\* IP does not become its own parent through auto-wiring: after the report is
\* handled its parent reference is what it was before (null for a device the
\* report created, null if it was null).
C11_SelfGatewayLeavesParent ==
    [][SelfGatewayReport =>
         devices'[last'.id].ParentID = ParentBefore(devices, last'.payload.IP)]_vars

\* C11 witness: a registration naming the device's own ip as gateway went
\* through UpsertDevice for a parentless device, which is still parentless
C11_Witness ==
    /\ last.op = "register" /\ last.status = 200
    /\ last.payload.GatewayIP = last.payload.IP
    /\ last.payload.ParentID = Nil
    /\ last.before = Nil
    /\ devices[last.id].GatewayIP = devices[last.id].IP
    /\ devices[last.id].ParentID = Nil

\* a loaded device whose parent reference names no loaded device
Orphan(devs, id) ==
    /\ id \in Live(devs)
    /\ devs[id].ParentID # Nil
    /\ devs[id].ParentID \notin Live(devs)

\* C12: orphan promotion: a device whose parent reference is an identifier
\* not in the loaded device set (for example that of a deleted parent) is a
\* root of the forest GetDeviceTree returns, not omitted.
C12_OrphanIsRoot ==
    tree.built =>
        \A id \in Live(devices) :
            Orphan(devices, id) => Count(tree.roots, id) = 1

\* C12 witness: the tree was built while a device still referred to a parent
\* that had been deleted, and lists that device among the roots
C12_Witness ==
    /\ tree.built
    /\ \E id \in Live(devices) :
          /\ devices[id].ParentID \in DOMAIN devices
          /\ devices[devices[id].ParentID].Deleted
          /\ id \in Range(tree.roots)

\* the store after G (10.0.0.1, no gateway, no parent id) and then A
\* (10.0.0.2, gateway 10.0.0.1, no parent id) registered on an empty store
GatewayThenAgentRegistered ==
    /\ clock = 2 /\ Len(devices) = 2 /\ metrics = <<>>
    /\ devices[1].IP = "10.0.0.1" /\ devices[1].GatewayIP = ""
    /\ devices[1].ParentID = Nil /\ devices[1].LastSeen = 1
    /\ last.op = "register" /\ last.status = 200 /\ last.created /\ last.id = 2
    /\ last.payload.IP = "10.0.0.2" /\ last.payload.GatewayIP = "10.0.0.1"
    /\ last.payload.ParentID = Nil

\* what the two queries answer on a store: one root, device 1, whose only
\* child is device 2, and cpu use 50 as the latest metrics of device 2
OneRootOneChildCpu50(devs, mets) ==
    /\ \A o \in Orders(Live(devs)) :
          LET t == GetDeviceTree(devs, o)
          IN  /\ t.roots = <<1>>
              /\ t.children[1] = <<2>>
              /\ t.children[2] = <<>>
    /\ GetLatestMetrics(mets, 2) # 0
    /\ mets[GetLatestMetrics(mets, 2)].CPUUsage = 50

\* C13: on an empty store, after G registers with ip 10.0.0.1 and no gateway,
\* A registers with ip 10.0.0.2 and gateway 10.0.0.1 and A reports metrics
\* with cpu 50, in that order, GetDeviceTree returns exactly one root, G,
\* whose only child is A, and GetLatestMetrics for A returns cpu use 50.
C13_GatewayAgentScenario ==
    [][( /\ GatewayThenAgentRegistered
         /\ last'.op = "metrics"
         /\ last'.payload.IP = "10.0.0.2"
         /\ last'.payload.CPUUsage = 50 )
       => /\ last'.status = 200
          /\ OneRootOneChildCpu50(devices', metrics')]_vars

\* C13 witness: the three requests of the scenario were handled and the store
\* answers the two queries as stated
C13_Witness ==
    /\ clock = 3 /\ Len(devices) = 2 /\ Len(metrics) = 1
    /\ devices[1].IP = "10.0.0.1" /\ devices[1].LastSeen = 1
    /\ devices[2].IP = "10.0.0.2" /\ devices[2].GatewayIP = "10.0.0.1"
    /\ last.op = "metrics" /\ last.status = 200 /\ ~last.created /\ last.id = 2
    /\ last.payload.CPUUsage = 50
    /\ OneRootOneChildCpu50(devices, metrics)

\* C14: every store write that UpsertDevice or SaveMetrics issues and the store
\* rejects (device create, mutable-field update, explicit-parent update,
\* auto-wired parent update, online/last-seen update, metrics insert) makes
\* the operation fail: no request during which a write was rejected is
\* answered with success.
C14_RejectedWriteFailsOperation ==
    ("rejected" \in DOMAIN last /\ last.rejected # {}) => last.status = 500

C16_InterruptShutsDownInOrder ==
    /\ [](/\ Len(calls) <= 2
          /\ calls # <<>> => calls[1].srv = "ctrlSrv"
          /\ Len(calls) = 2 => calls[2].srv = "dataSrv" /\ calls[1].returned # "pending"
          /\ (phase \in {"Returned", "Exited"} /\ calls # <<>>) =>
                /\ Len(calls) = 2
                /\ calls[2].returned # "pending"
                /\ result = Success)
    /\ (phase = "ShuttingDown" ~> (phase = "Exited" /\ ExitCode = 0))

\* C16 witness: the command returned success although the shutdown of the
\* control-plane listener ran into the deadline with a request still active
C16_Witness ==
    /\ phase = "Returned" /\ result = Success
    /\ Len(calls) = 2
    /\ calls[1].srv = "ctrlSrv" /\ calls[1].returned = "deadline exceeded"
    /\ calls[2].srv = "dataSrv"
    /\ active["ctrlSrv"] > 0

\* the reports of metrics among the requests sent
MetricsReports == {i \in DOMAIN sent : sent[i].url = "/api/metrics"}

\* C17: warm-up contract: every metrics report the agent sends carries the
\* rates of a Collect call that at least one completed Collect call on the
\* same collector preceded; the first Collect of the agent is a warm-up whose
\* snapshot is never sent, and the registration uses the second.
C17_ReportsFollowWarmup ==
    /\ \A i \in DOMAIN sent : sent[i].collect >= 2
    /\ \A i \in DOMAIN sent :
          sent[i].url = "/api/devices/register" <=> sent[i].collect = 2
    /\ \A i \in MetricsReports : sent[i].collect > 2
    /\ (sent # <<>> /\ sent[Len(sent)].collect = nCollect) =>
          /\ sent[Len(sent)].RxBytes = rxBps
          /\ sent[Len(sent)].TxBytes = txBps

\* C17 witness: the first metrics report carries the non-zero rates of the
\* agent's third Collect
C17_Witness ==
    /\ Len(sent) = 2
    /\ sent[2].url = "/api/metrics" /\ sent[2].collect = 3
    /\ initialized /\ nCollect = 3
    /\ sent[2].RxBytes > 0 /\ sent[2].TxBytes > 0

\* C18: at-most-once reporting: the report of a tick is sent at most once;
\* after a transport failure, a timeout or a response >= 400, as after a
\* success, nothing is kept to be sent again and the agent waits for the next
\* tick, whose report carries a fresh collection.
C18_ReportSentAtMostOnce ==
    [][Len(sent') = Len(sent) + 1 =>
         /\ agentPc' = "tick"
         /\ \A i \in DOMAIN sent : sent'[i] = sent[i]
         /\ \A i \in DOMAIN sent : sent[i].collect < sent'[Len(sent')].collect
         /\ sent # <<>> => sent'[Len(sent')].collect = sent[Len(sent)].collect + 1]_vars

\* C18 witness: a metrics report that timed out or was refused is followed by
\* the report of the next collection, and by nothing else
C18_Witness ==
    /\ Len(sent) = 3
    /\ sent[2].url = "/api/metrics" /\ sent[2].err
    /\ sent[3].url = "/api/metrics"
    /\ sent[3].collect = sent[2].collect + 1
    /\ agentPc = "tick"

\* the metrics rows stored for a device id
RowsOf(deviceID) == {i \in DOMAIN metrics : metrics[i].DeviceID = deviceID}

\* C19: GetLatestMetrics(deviceId) returns, among the metrics records stored
\* for that device id, one whose report timestamp is greatest, and fails with
\* NotFound when no record is stored for that device id; it never returns a
\* record of another device.
C19_LatestMetricsOfDevice ==
    last.op = "latest" =>
        IF RowsOf(last.id) = {}
        THEN last.status = 404
        ELSE /\ last.status = 200
             /\ last.data.DeviceID = last.id
             /\ \E i \in RowsOf(last.id) :
                   /\ last.data = metrics[i]
                   /\ \A j \in RowsOf(last.id) :
                         metrics[j].ReportedAt <= metrics[i].ReportedAt

\* C19 witness: the device queried has two records and the answer is the
\* later one
C19_Witness ==
    /\ last.op = "latest" /\ last.status = 200
    /\ Cardinality(RowsOf(last.id)) = 2
    /\ last.data = metrics[2]
    /\ metrics[2].ReportedAt > metrics[1].ReportedAt

\* C20: each successful SaveMetrics(deviceID, m) appends exactly one metrics
\* record, carrying the given device id and the current time, whether or not
\* a device with that id exists and without creating one; it marks the owning
\* device, if it exists, online with refreshed last-seen, and leaves every
\* other device and every metrics record stored before as it was.
C20_SaveMetricsAppendsOneRecord ==
    [][(last'.op = "saved" /\ clock' = clock + 1) =>
         /\ Len(metrics') = Len(metrics) + 1
         /\ \A i \in DOMAIN metrics : metrics'[i] = metrics[i]
         /\ metrics'[Len(metrics')].DeviceID = last'.id
         /\ metrics'[Len(metrics')].ReportedAt = clock'
         /\ DOMAIN devices' = DOMAIN devices
         /\ \A d \in DOMAIN devices :
               devices'[d] = IF d = last'.id /\ d \in Live(devices)
                             THEN [devices[d] EXCEPT !.IsOnline = TRUE,
                                                     !.LastSeen = clock']
                             ELSE devices[d]]_vars

\* C20 witness: the device of a report was deleted between lookup and
\* SaveMetrics; the record was stored for its id, and the deleted row was not
\* touched at that time
C20_Witness ==
    /\ last.op = "saved"
    /\ devices[last.id].Deleted
    /\ metrics[Len(metrics)].DeviceID = last.id
    /\ metrics[Len(metrics)].ReportedAt = clock
    /\ devices[last.id].LastSeen < clock

\* C20 witness, the other case: the record was stored for a live device,
\* which is online and was last seen at the time of the record
C20_WitnessLive ==
    /\ last.op = "saved"
    /\ ~devices[last.id].Deleted
    /\ devices[last.id].IsOnline
    /\ devices[last.id].LastSeen = clock
    /\ Len(metrics) = 2

\* the devices rows with the ip
RowsWithIP(devs, ip) == {i \in DOMAIN devs : devs[i].IP = ip}

\* C21: whatever the interleaving of the lookups and the writes of concurrent
\* registrations and metrics reports, no two live devices have the same ip, and
\* of the calls that saw an ip as not found exactly one creates the device: a
\* write after a not-found lookup adds a row exactly when there is none with
\* the ip yet, and it never adds more than one
C21_ConcurrentCallsCreateOneDevice ==
    [][/\ \A i, j \in Live(devices') : devices'[i].IP = devices'[j].IP => i = j
       /\ \A k \in DOMAIN pending :
             (pending' = Without(pending, k) /\ pending[k].found = 0)
             => /\ Len(devices') = Len(devices) + 1
                   <=> RowsWithIP(devices, pending[k].report) = {}
                /\ Cardinality(RowsWithIP(devices', pending[k].report)) = 1]_vars

\* C21 witness: two calls saw the same ip as not found; the first created the
\* device, the second one's create was refused, and one device has the ip
C21_Witness ==
    /\ last.op \in {"register", "metrics"}
    /\ last.status = 500
    /\ pending = <<>>
    /\ Cardinality(RowsWithIP(devices, last.payload.IP)) = 1
    /\ Len(devices) = 1

\* C22: a metrics report never replaces the group, network mode, os and agent
\* version of a device that a registration sent by an agent has created,
\* whatever the interleaving of the report with registrations for the ip
C22_IngestKeepsRegisteredPresentation ==
    [][last'.op = "metrics"
       => \A d \in DOMAIN devices :
             devices[d].AgentVer = agentVersion
             => /\ devices'[d].Group = devices[d].Group
                /\ devices'[d].NetworkMode = devices[d].NetworkMode
                /\ devices'[d].OS = devices[d].OS
                /\ devices'[d].AgentVer = devices[d].AgentVer]_vars

\* the call whose sample a step stores as the previous one: 0 for other steps
Storing == IF mu # 0 /\ mu' = 0 THEN mu ELSE 0

\* C23: concurrent calls serialize, samples included: the stored previous
\* timestamp never decreases, and, the counters of the operating system only
\* growing, no call computes a rate against a stored sample that was taken
\* after its own (which shows as stored counters above the call's)
C23_ConcurrentCollectsSerialize ==
    [][/\ prevTime' >= prevTime
       /\ (Storing # 0 /\ initialized /\ callers[Storing].now > prevTime)
          => /\ callers[Storing].curRx >= prevRx
             /\ callers[Storing].curTx >= prevTx]_vars

\* the sequence of ids follows the load order of DB.Find (ascending primary key)
InLoadOrder(seq) == \A i, j \in DOMAIN seq : i < j => seq[i] < seq[j]

\* C24: the root list and every child list of a returned forest are in load
\* order, and a second call on an unchanged store returns the same ordering
C24_TreeInLoadOrder ==
    [][tree'.built
       => /\ InLoadOrder(tree'.roots)
          /\ \A p \in DOMAIN tree'.children : InLoadOrder(tree'.children[p])
          /\ (tree.built /\ devices' = devices) => tree' = tree]_vars

\* the parent id a handled report supplies explicitly (a metrics report has none)
ExplicitParent(l) == IF l.op = "register" THEN l.payload.ParentID ELSE Nil

\* a registration or metrics report was handled with success
ReportHandled == last'.op \in {"register", "metrics"} /\ last'.status = 200

\* C25: auto-wiring sets a parent only for a device that after the upsert has
\* no parent and a non-empty gateway ip: a report without explicit parent id
\* leaves a non-null parent reference as it was, a report with an empty
\* gateway ip leaves the parent as the report supplies it or else as it was,
\* and a parent that is neither of these is the device with the reported
\* gateway ip, given to a device that had no parent
C25_AutoWiringOnlyParentlessWithGateway ==
    [][ReportHandled =>
         LET d == last'.id
             before == last'.before
             explicit == ExplicitParent(last')
             after == devices'[d].ParentID
         IN  /\ (before # Nil /\ explicit = Nil) => after = before
             /\ last'.payload.GatewayIP = ""
                  => after = IF explicit # Nil THEN explicit ELSE before
             /\ after \notin {before, explicit}
                  => /\ before = Nil /\ explicit = Nil
                     /\ last'.payload.GatewayIP # ""
                     /\ after = First(devices', last'.payload.GatewayIP)]_vars

\* C25 witness: a device with a parent reported without parent id, naming as
\* gateway the ip of another device than its parent, and kept its parent
C25_Witness ==
    /\ last.op = "register" /\ last.status = 200 /\ ~last.created
    /\ last.payload.ParentID = Nil
    /\ last.before # Nil
    /\ First(devices, last.payload.GatewayIP) \notin {0, last.before}
    /\ devices[last.id].ParentID = last.before

\* C25 witness, empty gateway: a parentless device reported an empty gateway
\* ip without parent id and is still parentless
C25_WitnessEmptyGateway ==
    /\ last.op = "register" /\ last.status = 200 /\ ~last.created
    /\ last.payload.ParentID = Nil /\ last.payload.GatewayIP = ""
    /\ last.before = Nil
    /\ devices[last.id].ParentID = Nil
    /\ \E g \in Live(devices) : g # last.id

\* C26: no retroactive resolution: a registration or a metrics report changes
\* no device record but the one of the reporting ip; every field of every
\* other device, the parent reference included, is as before (so a gateway
\* that registers after its children gives them no parent)
C26_ReportChangesOnlyReportingDevice ==
    [][last'.op \in {"register", "metrics"}
       => /\ \A d \in DOMAIN devices : d # last'.id => devices'[d] = devices[d]
          /\ last'.id # 0 => devices'[last'.id].IP = last'.payload.IP]_vars

\* C26 witness: a device registered whose ip a device registered before it had
\* reported as gateway; that device has no parent as before
C26_Witness ==
    /\ last.op = "register" /\ last.status = 200 /\ last.created
    /\ \E c \in Live(devices) :
          /\ c < last.id
          /\ devices[c].GatewayIP = last.payload.IP
          /\ devices[c].ParentID = Nil

\* the presentation fields of a device or of a report
Presentation(r) == <<r.Hostname, r.OS, r.GatewayIP, r.Group, r.NetworkMode, r.AgentVer>>

ResolutionMiss ==
    /\ last'.op = "register"
    /\ last'.payload.GatewayIP \notin {"", last'.payload.IP}
    /\ First(devices, last'.payload.GatewayIP) = 0
    /\ RowsWithIP(devices, last'.payload.IP) \subseteq Live(devices)

\* C28: after every successful UpsertDevice the device is online and its
\* last-seen is the time of the call, for a created device too and also when
\* auto-wiring found no device with the gateway ip; such a miss is no error:
\* the call succeeds, the gateway ip is stored, and the device has the parent
\* of the report or the one it had, none if there was none
C28_UpsertMarksOnlineAlsoOnMiss ==
    [][/\ (ReportHandled /\ (last'.op = "register" \/ last'.created))
          => /\ devices'[last'.id].IsOnline
             /\ devices'[last'.id].LastSeen = clock'
       /\ ResolutionMiss
          => /\ last'.status = 200
             /\ devices'[last'.id].GatewayIP = last'.payload.GatewayIP
             /\ devices'[last'.id].ParentID =
                   IF last'.payload.ParentID # Nil THEN last'.payload.ParentID
                   ELSE last'.before]_vars

\* C28 witness: a registration created a device whose gateway ip no device
\* has: it succeeded, the device is parentless, stores the gateway ip, is
\* online and was last seen at the time of the call
C28_Witness ==
    /\ last.op = "register" /\ last.status = 200 /\ last.created
    /\ last.payload.ParentID = Nil
    /\ last.payload.GatewayIP \notin {"", last.payload.IP}
    /\ First(devices, last.payload.GatewayIP) = 0
    /\ devices[last.id].GatewayIP = last.payload.GatewayIP
    /\ devices[last.id].ParentID = Nil
    /\ devices[last.id].IsOnline
    /\ devices[last.id].LastSeen = clock

\* the order of the lifecycle states: RunE has returned in "Returned", and the
\* process is gone in "Exited"
Rank(ph) ==
    CASE ph = "Starting" -> 0
      [] ph = "Running" -> 1
      [] ph = "ShuttingDown" -> 2
      [] ph = "Returned" -> 3
      [] ph = "Exited" -> 4

Stopped == phase \in {"Returned", "Exited"}

\* C29: the lifecycle is Running, then ShuttingDown, then Stopped: no step
\* leads back to an earlier state (so none returns to Running and
\* ShuttingDown is entered at most once), ShuttingDown is entered from Running
\* only, a stopped service stays stopped, and once it shuts down it stops with
\* the result of the shutdown, whatever listener errors and interrupts are
\* waiting
C29_LifecycleOneWay ==
    [][/\ Rank(phase') >= Rank(phase)
       /\ (phase' = "ShuttingDown" /\ phase # "ShuttingDown") => phase = "Running"
       /\ (phase' = "Running" /\ phase # "Running") => phase = "Starting"
       /\ Stopped => Stopped' /\ result' = result
       /\ (phase = "ShuttingDown" /\ phase' # "ShuttingDown")
          => phase' = "Returned" /\ result' = Success
       /\ phase = "Exited" => UNCHANGED serviceVars]_vars

\* C29 witness: a listener had failed and an interrupt was taken, a second
\* interrupt arrived during the shutdown; the service has stopped with
\* success, the listener's error and the second interrupt still waiting
C29_Witness ==
    /\ phase = "Exited" /\ result = Success
    /\ Len(calls) = 2
    /\ quit = 1
    /\ \E l \in Listeners : ListenError(l) \in Range(errCh)

\* C30: once an interrupt has been received while Running the service
\* eventually stops, also when a request in flight never completes: a
\* Shutdown call that waits returns once the grace period has expired, it
\* reports the deadline only then, and no request is left when the process
\* has exited
C30_InterruptEventuallyStops ==
    /\ ((phase = "Running" /\ quit = 1) ~> phase = "Exited")
    /\ ((phase = "ShuttingDown" /\ \E l \in Listeners : active[l] > 0)
           ~> (phase = "Exited" /\ \A l \in Listeners : active[l] = 0))
    /\ ((Pending /\ expired) ~> ~Pending)
    /\ [](\A i \in DOMAIN calls : calls[i].returned = "deadline exceeded" => expired)

\* C30 witness: both Shutdown calls waited for a request that did not
\* complete and returned at the deadline; the process has exited with success
C30_Witness ==
    /\ phase = "Exited" /\ ExitCode = 0
    /\ expired
    /\ Len(calls) = 2
    /\ \A i \in DOMAIN calls : calls[i].returned = "deadline exceeded"

\* the goroutine of listener l can take its next step now
CanListen(l) == ENABLED (WorkerListens(l) /\ UNCHANGED besidesService)
CanSend(l) == ENABLED (WorkerSends(l) /\ UNCHANGED besidesService)

\* C31: the listeners are started concurrently, neither waiting for the other:
\* a started goroutine can begin to listen whatever the state of the other;
\* and a goroutine that has a terminal error to deliver is never blocked: errCh
\* holds at most one value per listener and has room for the send, whether
\* RunE has read one error, or none (shutdown on interrupt)
C31_WorkersNeverBlock ==
    \A l \in Listeners :
       /\ (Notified /\ listeners[l] = "spawned") => CanListen(l)
       /\ (Notified /\ listeners[l] \in {"failing", "closing"}) => CanSend(l)
       /\ Len(errCh) <= ErrChCapacity
       /\ Cardinality({i \in DOMAIN errCh : errCh[i].srv = l}) <= 1

\* C31 witness: the command shut down on an interrupt and read no error; both
\* goroutines have delivered their terminal error, which wait in errCh
C31_Witness ==
    /\ phase = "Returned" /\ result = Success
    /\ Len(errCh) = 2
    /\ \A l \in Listeners : listeners[l] \in {"failed", "closed"}

\* C31 witness, concurrent start: the data-plane listener listens while the
\* goroutine of the control-plane listener has not begun to
C31_WitnessStart ==
    /\ phase = "Running"
    /\ listeners["ctrlSrv"] = "spawned"
    /\ listeners["dataSrv"] = "serving"

\* C32: a parent reference set by auto-wiring names the device whose ip is the
\* gateway ip stored for the device (no report carries a parent id here, so
\* every parent reference is auto-resolved), also after reports in which the
\* gateway ip of the device changes
C32_AutoParentMatchesGateway ==
    \A d \in Live(devices) :
       devices[d].ParentID # Nil
       => devices[d].ParentID = First(devices, devices[d].GatewayIP)

\* C33: a registration or a metrics report from the ip of a deleted device,
\* which no live device has, succeeds and creates a new live device for the ip
C33_ReportAfterDeleteCreatesDevice ==
    [][(/\ last'.op \in {"register", "metrics"}
        /\ First(devices, last'.payload.IP) = 0
        /\ \E d \in DOMAIN devices :
              devices[d].Deleted /\ devices[d].IP = last'.payload.IP)
       => /\ last'.status = 200
          /\ last'.created
          /\ Len(devices') = Len(devices) + 1
          /\ First(devices', last'.payload.IP) = Len(devices')]_vars

\* the cycles of the loop begun so far (the first two Collect calls are the
\* warm-up and the registration's)
Cycles == IF nCollect > 2 THEN nCollect - 2 ELSE 0

\* C34: the agent runs at most one collection-and-report cycle at a time: a
\* cycle begins only when the loop waits for a tick, with a tick received and
\* the report of every earlier collection sent (whatever its outcome); ticks
\* that elapse during a cycle leave at most one tick waiting, and never more
\* cycles begin than ticks have elapsed
C34_OneCycleAtATime ==
    [][/\ ticker'.buffered <= 1
       /\ Cycles' <= ticker'.fired
       /\ (nCollect' # nCollect /\ nCollect >= 2)
          => /\ agentPc = "tick" /\ agentPc' = "post"
             /\ ticker.buffered = 1 /\ ticker'.buffered = 0
             /\ sent # <<>> /\ sent[Len(sent)].collect = nCollect
             /\ Len(sent) = nCollect - 1]_vars

\* C34 witness: after the tick that began the first cycle the interval
\* elapsed twice more during that cycle, whose report is sent now; one tick
\* waits and one cycle has begun
C34_Witness ==
    /\ agentPc = "tick"
    /\ Cycles = 1
    /\ Len(sent) = 2
    /\ ticker.fired = 3
    /\ ticker.buffered = 1

\* the registration requests among the requests sent
Registrations == {i \in DOMAIN sent : sent[i].url = "/api/devices/register"}

\* C35: a run sends exactly one registration, before every metrics report: once
\* the agent is in its loop the first request sent is the registration and no
\* other is one, whatever the answer to it was; the registration carries a
\* parent id exactly when the configured parent id is not 0, and then that id
C35_OneRegistrationFirst ==
    /\ Registrations \subseteq {1}
    /\ agentPc \in {"tick", "post"} <=> sent # <<>>
    /\ sent # <<>>
       => /\ Registrations = {1}
          /\ sent[1].ParentID # Nil <=> cfg.AgentParentID # 0
          /\ sent[1].ParentID # Nil => sent[1].ParentID = cfg.AgentParentID

\* C35 witness: the registration of an agent configured with parent 1 failed,
\* it carried the parent id, and the agent has sent a metrics report since
C35_Witness ==
    /\ cfg.AgentParentID = 1
    /\ Len(sent) = 2
    /\ sent[1].url = "/api/devices/register" /\ sent[1].err /\ sent[1].ParentID = 1
    /\ sent[2].url = "/api/metrics"

\* C36: no registration or metrics request changes the record store unless its
\* Authorization header is "Bearer " followed by the agent token: UpsertDevice
\* and SaveMetrics run only for such a request on the data plane, every other
\* request for these routes is answered 401 with the store as it was; and the
\* device-tree, device-metrics and device-delete handlers run only for a
\* request on the control plane with a valid JWT, never with the agent token
C36_StoreBehindAuthentication ==
    [][/\ last'.op \in {"register", "metrics"}
          => /\ request'.plane = "data"
             /\ request'.route \in DataProtected
             /\ request'.header = <<"Bearer", agentToken>>
       /\ (/\ request'.plane = "data"
           /\ request'.route \in DataProtected
           /\ request'.header # <<"Bearer", agentToken>>)
          => /\ last'.op = "unauthorized" /\ last'.status = 401
             /\ UNCHANGED <<devices, metrics, clock>>
       /\ last'.op \in {"tree", "latest", "delete"}
          => /\ request'.plane = "control"
             /\ request'.route \in ControlProtected
             /\ Len(request'.header) = 2
             /\ request'.header[2] \in ValidJWTs
             /\ request'.header[2] # agentToken
       /\ last'.status \in {401, 404} /\ last'.op # "latest"
          => UNCHANGED <<devices, metrics, clock, tree>>
       /\ <<devices, metrics>>' # <<devices, metrics>>
          => \/ /\ request'.plane = "data"
                /\ request'.header = <<"Bearer", agentToken>>
             \/ /\ request'.plane = "control"
                /\ Len(request'.header) = 2
                /\ request'.header[2] \in ValidJWTs]_vars

\* C36 witness: with a device stored, a registration whose header names the
\* agent token under the scheme "bearer" was answered 401
C36_Witness ==
    /\ devices # <<>>
    /\ request.plane = "data"
    /\ request.route = "POST /api/devices/register"
    /\ request.header = <<"bearer", agentToken>>
    /\ last.op = "unauthorized" /\ last.status = 401

\* C36 witness, control plane: the device tree was asked for with the agent
\* token as bearer token and was refused
C36_WitnessControl ==
    /\ devices # <<>>
    /\ request.plane = "control"
    /\ request.route = "GET /api/devices/tree"
    /\ request.header = <<"Bearer", agentToken>>
    /\ last.op = "unauthorized" /\ last.status = 401
    /\ ~tree.built

\* the fields of a device that a node of the tree copies
Copied(r) ==
    <<r.Hostname, r.Remark, r.IP, r.OS, r.GatewayIP, r.NetworkMode, r.Group,
      r.IsOnline, r.LastSeen, r.ParentID>>

\* C37: every node GetDeviceTree returns is a copy of its device: its id is
\* the device's, and hostname, remark, ip, os, gateway ip, network mode,
\* group, online flag, last-seen and parent reference equal the stored ones
C37_NodeCopiesDevice ==
    tree.built
    => \A id \in DOMAIN tree.nodes :
          /\ id \in Live(devices)
          /\ tree.nodes[id].ID = id
          /\ Copied(tree.nodes[id]) = Copied(devices[id])

\* a call of netBandwidth returns at its failed read of the counters
ReadFailed == nCollect' = nCollect + 1 /\ callers' = callers

\* C38: a computation that read the counters stores the counters and the
\* timestamp it read as the previous ones, on the first call and with an
\* elapsed time <= 0 too, where it reports 0 for both rates; a computation
\* whose read fails reports 0 for both rates, and nothing but a computation
\* that read the counters changes the stored previous state
C38_StoresWhatItRead ==
    [][/\ Storing # 0
          => /\ prevRx' = callers[Storing].curRx
             /\ prevTx' = callers[Storing].curTx
             /\ prevTime' = callers[Storing].now
             /\ initialized'
             /\ (~initialized \/ callers[Storing].now - prevTime <= 0)
                => rxBps' = 0 /\ txBps' = 0
       /\ Storing = 0 => UNCHANGED <<prevRx, prevTx, prevTime, initialized>>
       /\ ReadFailed => rxBps' = 0 /\ txBps' = 0]_vars

\* a first call has stored its sample and a later call reached the store with
\* no time elapsed since the stored sample
C38_Witness ==
    /\ initialized
    /\ prevRx > 0
    /\ \E t \in Callers : callers[t].pc = "locked" /\ callers[t].now <= prevTime

=============================================================================
